---- MODULE Spec2Model ----
(***************************************************************************)
(* Name resolution of vulpi: the two resolvers of crates/vulpi-resolver.   *)
(*   - lib.rs     : Context { scopes, patterns, namespaces, tree, reporter, *)
(*                  main, name } and its impl Resolve for the concrete tree *)
(*   - resolve.rs : Context { captured, reporter, scopes, modules, uses,    *)
(*                  imports, namespace } and its impl Resolve for the       *)
(*                  abstract tree                                           *)
(* A resolve call is a recursive descent that threads the mutable Context; *)
(* each impl is an operator from (node, context) to [out, ctx].  Syntax    *)
(* nodes are records [k, name, subs]: the variant, the path of symbols it  *)
(* carries and its children in source order.  Spans are left out: they are *)
(* carried through and never read by a decision.                           *)
(***************************************************************************)
EXTENDS Naturals, Sequences, FiniteSets, TLC

VARIABLES
    namespaces, \* lib.rs Context.namespaces: the registry the declare phase built
    ctx,        \* lib.rs Context: scopes, patterns, reporter, name
    context,    \* resolve.rs Context: captured, reporter, scopes, uses, imports, namespace
    pc,         \* "new" after Context::new, then which resolve ran, or "panicked"
    input,      \* the tree handed to resolve
    output      \* the tree resolve returned

vars == <<namespaces, ctx, context, pc, input, output>>

(***************************************************************************)
(* Bounds of the inputs.                                                   *)
(***************************************************************************)
MaxPath == 3    \* segments of a path handed to a lookup
MaxArgs == 3    \* arguments of a constructor pattern

(***************************************************************************)
(* Trees.                                                                  *)
(***************************************************************************)
Node(k, name, subs) == [k |-> k, name |-> name, subs |-> subs]
Leaf(k, name) == Node(k, name, <<>>)
Last(s) == s[Len(s)]
Front(s) == SubSeq(s, 1, Len(s) - 1)

RECURSIVE SetToSeq(_)
SetToSeq(S) ==
    IF S = {} THEN <<>>
    ELSE LET e == CHOOSE e \in S : TRUE IN <<e>> \o SetToSeq(S \ {e})

RECURSIVE SeqsUpTo(_, _)
SeqsUpTo(S, n) ==
    IF n = 0 THEN {<<>>}
    ELSE LET shorter == SeqsUpTo(S, n - 1)
         IN shorter \cup {Append(s, e) : s \in {t \in shorter : Len(t) = n - 1}, e \in S}

(***************************************************************************)
(* Diagnostics: ResolverError { kind } with the symbols the kind carries.  *)
(***************************************************************************)
Diag(kind, path) == [kind |-> kind, path |-> path]

(***************************************************************************)
(* lib.rs: module tree and namespace registry.  module_tree.rs,            *)
(* namespace.rs and declare.rs are not part of the sources at hand; the    *)
(* shapes are those of spec.md section 3 (ModuleTree, Item, Namespace).    *)
(* The program declares                                                    *)
(*     module M { let secret, let foo, type S, type T = K }                *)
(*     module N { let foo, effect E }                                      *)
(* and, at the root, let foo, the constructors A (and B), a record field   *)
(* fld, an alias value m.                                                  *)
(***************************************************************************)
\* NamespaceId handles (only their equality is ever used).
RootId == "ns0"
MId == "ns1"
NId == "ns2"
TId == "ns3"
EId == "ns4"
NoId == "none"

\* ModuleTree::find: the node of a path of declaration names, if any.
TreePaths == {<<>>, <<"M">>, <<"N">>, <<"M", "T">>, <<"N", "E">>}
TreeFind(path) ==
    CASE path = <<>> -> RootId
      [] path = <<"M">> -> MId
      [] path = <<"N">> -> NId
      [] path = <<"M", "T">> -> TId
      [] path = <<"N", "E">> -> EId
      [] OTHER -> NoId

Item(kind, canonical, last, visibility) ==
    [kind |-> kind, canonical |-> canonical, last |-> last, visibility |-> visibility]
NoItem == Item("None", NoId, "", "Public")
ModItem(id, visibility) == [item |-> id, visibility |-> visibility]

Visibilities == {"Public", "Private"}

\* What the declare phase can have built: the visibility of M and of M's
\* secret/S, whether M is a pass-through namespace, whether constructor B
\* and the root value foo exist.
RegConfigs ==
    [visM : Visibilities, visSecret : Visibilities, ptM : BOOLEAN,
     hasB : BOOLEAN, hasFoo : BOOLEAN]

Registry(c) ==
    LET rootValues ==
            [s \in ({"A", "fld", "m"}
                    \cup (IF c.hasB THEN {"B"} ELSE {})
                    \cup (IF c.hasFoo THEN {"foo"} ELSE {})) |->
                CASE s = "A" -> Item("Constructor", RootId, "A", "Public")
                  [] s = "B" -> Item("Constructor", RootId, "B", "Public")
                  [] s = "fld" -> Item("Field", RootId, "fld", "Public")
                  [] s = "m" -> Item("Module", RootId, "m", "Public")
                  [] OTHER -> Item("Function", RootId, "foo", "Public")]
        mValues ==
            [s \in {"secret", "foo"} |->
                IF s = "secret" THEN Item("Function", MId, "secret", c.visSecret)
                ELSE Item("Function", MId, "foo", "Public")]
    IN [id \in {RootId, MId, NId, TId, EId} |->
          CASE id = RootId ->
                 [values |-> rootValues,
                  types |-> [s \in {"R"} |-> Item("Record", RootId, "R", "Public")],
                  modules |-> [s \in {"M", "N"} |->
                                 IF s = "M" THEN ModItem(MId, c.visM)
                                 ELSE ModItem(NId, "Public")],
                  pass_through |-> FALSE]
            [] id = MId ->
                 [values |-> mValues,
                  types |-> [s \in {"S", "T"} |->
                               IF s = "S" THEN Item("Type", MId, "S", c.visSecret)
                               ELSE Item("Enum", MId, "T", "Public")],
                  modules |-> [s \in {"T"} |-> ModItem(TId, "Public")],
                  pass_through |-> c.ptM]
            [] id = NId ->
                 [values |-> [s \in {"foo", "E"} |->
                                IF s = "E" THEN Item("Effect", NId, "E", "Public")
                                ELSE Item("Function", NId, "foo", "Public")],
                  types |-> [s \in {} |-> NoItem],
                  modules |-> [s \in {"E"} |-> ModItem(EId, "Public")],
                  pass_through |-> FALSE]
            [] id = EId ->
                 [values |-> [s \in {} |-> NoItem],
                  types |-> [s \in {} |-> NoItem],
                  modules |-> [s \in {} |-> ModItem(NoId, "Public")],
                  pass_through |-> FALSE]
            [] OTHER ->
                 [values |-> [s \in {"K"} |-> Item("Constructor", TId, "K", "Public")],
                  types |-> [s \in {} |-> NoItem],
                  modules |-> [s \in {} |-> ModItem(NoId, "Public")],
                  pass_through |-> FALSE]]

(***************************************************************************)
(* lib.rs: Context.                                                        *)
(***************************************************************************)
\* Kaleidoscope::default(): no frame of either capability is open.
Kaleidoscope == [Variable |-> <<>>, TypeVariable |-> <<>>]

\* Context::new
NewCtx ==
    [scopes |-> Kaleidoscope, patterns |-> <<>>, reporter |-> <<>>,
     name |-> <<>>, panicked |-> FALSE]

main == RootId

\* Context::report
report(c, d) == [c EXCEPT !.reporter = Append(@, d)]

\* An unwrap of None, a todo!(): the run ends abnormally.
panic(c) == [c EXCEPT !.panicked = TRUE]

\* Context::get_current_id: self.tree.find(&self.name).unwrap().id.0
get_current_id(c) ==
    IF c.name \in TreePaths THEN [id |-> TreeFind(c.name), ctx |-> c]
    ELSE [id |-> NoId, ctx |-> panic(c)]

\* The `while let` of find_val over the leading segments.  Returns the
\* namespace reached and the segments left, or that a private module was hit.
RECURSIVE find_val_walk(_, _, _)
find_val_walk(name, module_id, current) ==
    LET head == Head(name)
        tail == Tail(name)
        module == namespaces[module_id]
    IN IF head \in DOMAIN module.modules
       THEN LET item == module.modules[head]
            IN IF item.visibility = "Private" /\ current # module_id
               THEN [private |-> TRUE, name |-> tail, module_id |-> module_id]
               ELSE IF Len(tail) = 1
                    THEN [private |-> FALSE, name |-> tail, module_id |-> item.item]
                    ELSE find_val_walk(tail, item.item, current)
       ELSE [private |-> FALSE, name |-> tail, module_id |-> module_id]

\* The final-segment half of find_val without the pass_through exemption.
find_val_last_no_conduit(c, name, module_id, current, fun) ==
    IF Len(name) = 1
    THEN LET module == namespaces[module_id]
             map == module[fun]
         IN IF name[1] \notin DOMAIN map
            THEN [item |-> NoItem, ctx |-> report(c, Diag("NotFound", name))]
            ELSE LET result == map[name[1]]
                 IN IF result.visibility = "Private" /\ module_id # current
                    THEN [item |-> NoItem, ctx |-> report(c, Diag("PrivateDefinition", <<>>))]
                    ELSE [item |-> result, ctx |-> c]
    ELSE [item |-> NoItem, ctx |-> report(c, Diag("InvalidPath", name))]

\* The final-segment half of find_val.
find_val_last(c, name, module_id, current, fun) ==
    IF Len(name) = 1
    THEN LET module == namespaces[module_id]
             map == module[fun]
         IN IF name[1] \notin DOMAIN map
            THEN [item |-> NoItem, ctx |-> report(c, Diag("NotFound", name))]
            ELSE LET result == map[name[1]]
                 IN IF result.visibility = "Private" /\ module_id # current
                       /\ ~module.pass_through
                    THEN [item |-> NoItem, ctx |-> report(c, Diag("PrivateDefinition", <<>>))]
                    ELSE [item |-> result, ctx |-> c]
    ELSE [item |-> NoItem, ctx |-> report(c, Diag("InvalidPath", name))]

\* Context::find_val(span, module, name, fun); fun is "values" or "types".
find_val(c, module, name, fun) ==
    IF c.name \notin TreePaths
    THEN [item |-> NoItem, ctx |-> panic(c)]
    ELSE LET current == TreeFind(c.name)
         IN IF Len(name) > 1
            THEN LET w == find_val_walk(name, module, current)
                 IN IF w.private
                    THEN [item |-> NoItem, ctx |-> report(c, Diag("PrivateDefinition", <<>>))]
                    ELSE find_val_last(c, w.name, w.module_id, current, fun)
            ELSE find_val_last(c, name, module, current, fun)

find_type(c, name) == find_val(c, main, name, "types")
find_value(c, name) == find_val(c, main, name, "values")


(***************************************************************************)
(* lib.rs: the scope stack.  scopes.rs is not part of the sources at hand; *)
(* push/pop/add/contains are those of spec.md section 3 (Scope Stack).     *)
(***************************************************************************)
push(c, T) == [c EXCEPT !.scopes[T] = Append(@, {})]

pop(c, T) ==
    IF c.scopes[T] = <<>> THEN panic(c)
    ELSE [c EXCEPT !.scopes[T] = Front(@)]

add(c, T, symbol) ==
    IF c.scopes[T] = <<>> THEN panic(c)
    ELSE [c EXCEPT !.scopes[T][Len(c.scopes[T])] = @ \cup {symbol}]

contains(c, T, symbol) == \E i \in DOMAIN c.scopes[T] : symbol \in c.scopes[T][i]

RECURSIVE add_all(_, _, _)
add_all(c, T, keys) ==
    IF keys = <<>> THEN c ELSE add_all(add(c, T, Head(keys)), T, Tail(keys))

(***************************************************************************)
(* lib.rs: Context, the binder and pattern transactions (lines 133-212).   *)
(***************************************************************************)
\* A closure handed to scope, scope_pattern or scope_or_pattern is the impl
\* it comes from and the node it captured; call applies it to a Context.
\* The resolve of a pattern or an expression is reached through call too,
\* by the name of its impl.
RECURSIVE call(_, _, _)

\* Context::scope::<T>
scope_without_pop(c, T, fun, n) ==
    LET r == call(fun, n, push(c, T))
    IN [out |-> r.out, ctx |-> r.ctx]

scope(c, T, fun, n) ==
    LET r == call(fun, n, push(c, T))
    IN [out |-> r.out, ctx |-> pop(r.ctx, T)]

\* add_pattern as it would be if a repeated name were refused silently.
add_pattern_silent(c, name) ==
    IF c.patterns = <<>> THEN [ok |-> FALSE, ctx |-> panic(c)]
    ELSE IF name \in Last(c.patterns) THEN [ok |-> FALSE, ctx |-> c]
         ELSE [ok |-> TRUE,
               ctx |-> [c EXCEPT !.patterns[Len(c.patterns)] = @ \cup {name}]]

\* Context::add_pattern: HashMap::insert on the innermost capture map.
add_pattern(c, name) ==
    IF c.patterns = <<>> THEN [ok |-> FALSE, ctx |-> panic(c)]
    ELSE IF name \in Last(c.patterns)
         THEN [ok |-> FALSE, ctx |-> report(c, Diag("DuplicatePattern", <<name>>))]
         ELSE [ok |-> TRUE,
               ctx |-> [c EXCEPT !.patterns[Len(c.patterns)] = @ \cup {name}]]

\* scope_pattern pushing a capture map for every pattern
scope_pattern_always(c, fun, n) ==
    LET r == call(fun, n, [c EXCEPT !.patterns = Append(@, {})])
        result == Last(r.ctx.patterns)
        popped == [r.ctx EXCEPT !.patterns = Front(@)]
    IN IF r.ctx.patterns = <<>> THEN [out |-> r.out, ctx |-> panic(r.ctx)]
       ELSE [out |-> r.out, ctx |-> add_all(popped, "Variable", SetToSeq(result))]

\* Context::scope_pattern
scope_pattern(c, fun, n) ==
    IF c.patterns = <<>>
    THEN LET r == call(fun, n, [c EXCEPT !.patterns = Append(@, {})])
             result == Last(r.ctx.patterns)
             popped == [r.ctx EXCEPT !.patterns = Front(@)]
         IN IF r.ctx.patterns = <<>> THEN [out |-> r.out, ctx |-> panic(r.ctx)]
            ELSE [out |-> r.out, ctx |-> add_all(popped, "Variable", SetToSeq(result))]
    ELSE call(fun, n, c)

\* The `for key in diff` loop of scope_or_pattern.
RECURSIVE report_all(_, _, _)
report_all(c, kind, keys) ==
    IF keys = <<>> THEN c
    ELSE report_all(report(c, Diag(kind, <<Head(keys)>>)), kind, Tail(keys))

\* scope_or_pattern merging the captures of the right branch.
scope_or_pattern_right_biased(c, left, right) ==
    LET l == call("PatternKind_resolve", left, [c EXCEPT !.patterns = Append(@, {})])
        left_pop == Last(l.ctx.patterns)
        r == call("PatternKind_resolve", right,
                  [l.ctx EXCEPT !.patterns = Append(Front(@), {})])
        right_pop == Last(r.ctx.patterns)
        c2 == [r.ctx EXCEPT !.patterns = Front(@)]
        diff == (left_pop \ right_pop) \cup (right_pop \ left_pop)
        errored == diff # {}
        c3 == report_all(c2, "VariableNotBoundOnBothSides", SetToSeq(diff))
        c4 == IF c3.patterns = <<>> THEN panic(c3)
              ELSE [c3 EXCEPT !.patterns[Len(c3.patterns)] = @ \cup right_pop]
    IN [some |-> ~errored, left |-> l.out, right |-> r.out, ctx |-> c4]

\* Context::scope_or_pattern: Option<(U, U)> is [some, left, right]; the
\* two closures are |ctx| self.left.resolve(ctx) and |ctx| self.right.resolve(ctx).
scope_or_pattern(c, left, right) ==
    LET l == call("PatternKind_resolve", left, [c EXCEPT !.patterns = Append(@, {})])
        left_pop == Last(l.ctx.patterns)
        r == call("PatternKind_resolve", right,
                  [l.ctx EXCEPT !.patterns = Append(Front(@), {})])
        right_pop == Last(r.ctx.patterns)
        c2 == [r.ctx EXCEPT !.patterns = Front(@)]
        diff == (left_pop \ right_pop) \cup (right_pop \ left_pop)
        errored == diff # {}
        c3 == report_all(c2, "VariableNotBoundOnBothSides", SetToSeq(diff))
        c4 == IF c3.patterns = <<>> THEN panic(c3)
              ELSE [c3 EXCEPT !.patterns[Len(c3.patterns)] = @ \cup left_pop]
    IN [some |-> ~errored, left |-> l.out, right |-> r.out, ctx |-> c4]


(***************************************************************************)
(* lib.rs: impl Resolve.  Input variants carry a prefix (P pattern, T type *)
(* S statement); abs:: outputs are "Pat..." for patterns and the variant   *)
(* name otherwise.  A Qualified in the output is name = <<canonical, last>>.*)
(***************************************************************************)
NoNode == Leaf("None", <<>>)
Res(out, c) == [out |-> out, ctx |-> c]
Qual(item) == <<item.canonical, item.last>>
Panicked(c) == Res(Leaf("Panic", <<>>), panic(c))

RECURSIVE TypeKind_resolve(_, _), VecType_resolve(_, _)
RECURSIVE PatternKind_resolve(_, _), PatternKind_match(_, _), VecPattern_resolve(_, _),
          EachPattern_resolve(_, _), PatOr_resolve(_, _), PatApplication_resolve(_, _)
RECURSIVE ExprKind_resolve(_, _), VecExpr_resolve(_, _), LambdaExpr_resolve(_, _),
          LambdaExpr_body(_, _), ApplicationExpr_resolve(_, _), LetExpr_resolve(_, _),
          LetExpr_bound(_, _), WhenExpr_resolve(_, _), PatternArm_resolve(_, _),
          PatternArm_body(_, _), PatternArm_patterns(_, _), VecPatternArm_resolve(_, _),
          DoExpr_resolve(_, _), DoExpr_body(_, _), VecStatement_resolve(_, _),
          StatementKind_resolve(_, _), TypeDecl_body(_, _), LetDecl_body(_, _)

\* impl Resolve for TypeKind (Parenthesis, Forall, Tuple are not fed)
TypeKind_resolve(n, c) ==
    CASE n.k = "TType" ->
           LET f == find_type(c, n.name)
           IN IF f.item = NoItem THEN Res(Leaf("TypeError", <<>>), f.ctx)
              ELSE Res(Leaf("Type", Qual(f.item)), f.ctx)
      [] n.k = "TArrow" ->
           LET r == call("VecType_resolve", n.subs, c)
           IN Res(Node("Pi", <<>>, r.out), r.ctx)
      [] n.k = "TApplication" ->
           LET r == call("VecType_resolve", n.subs, c)
           IN Res(Node("TypeApplication", <<>>, r.out), r.ctx)
      [] n.k = "TTypeVariable" -> Res(Leaf("TypeVariable", n.name), c)
      [] OTHER -> Res(Leaf("Unit", <<>>), c)

\* impl Resolve for Vec<T>, T a type
VecType_resolve(ns, c) ==
    IF ns = <<>> THEN Res(<<>>, c)
    ELSE LET h == call("TypeKind_resolve", Head(ns), c)
             t == call("VecType_resolve", Tail(ns), h.ctx)
         IN Res(<<h.out>> \o t.out, t.ctx)

\* find_constructor_raw / find_cons: ok and error build the node.
find_constructor_raw(x, c, ok, error) ==
    LET f == find_value(c, x)
    IN IF f.item = NoItem THEN Res(Leaf(error, <<>>), f.ctx)
       ELSE IF f.item.kind = "Constructor" THEN Res(Leaf(ok, Qual(f.item)), f.ctx)
       ELSE Res(Leaf(error, <<>>), report(f.ctx, Diag("ExpectedConstructor", <<>>)))

\* ExprKind::Variable as it would be if the global lookup came first.
ExprKind_Variable_global_first(n, c) ==
    LET f == find_value(c, n.name)
    IN IF f.item # NoItem /\ f.item.kind = "Function"
       THEN Res(Leaf("Function", Qual(f.item)), f.ctx)
       ELSE IF contains(c, "Variable", n.name[1]) THEN Res(Leaf("Variable", n.name), c)
       ELSE Res(Leaf("Error", <<>>), report(f.ctx, Diag("NotFound", n.name)))

\* ExprKind::Variable of impl Resolve for ExprKind
ExprKind_Variable(n, c) ==
    IF contains(c, "Variable", n.name[1])
    THEN Res(Leaf("Variable", n.name), c)
    ELSE LET f == find_value(c, n.name)
         IN IF f.item # NoItem
            THEN CASE f.item.kind = "Module" -> Panicked(f.ctx)
                   [] f.item.kind = "Field" -> Panicked(f.ctx)
                   [] f.item.kind = "Function" -> Res(Leaf("Function", Qual(f.item)), f.ctx)
                   [] f.item.kind = "Effect" -> Res(Leaf("Effect", Qual(f.item)), f.ctx)
                   [] OTHER -> Res(Leaf("Constructor", Qual(f.item)), f.ctx)
            ELSE Res(Leaf("Error", <<>>), report(f.ctx, Diag("NotFound", n.name)))

\* expect_function_or_effect
expect_function_or_effect(x, c) ==
    LET f == find_value(c, x)
    IN IF f.item = NoItem THEN Res(Leaf("Error", <<>>), f.ctx)
       ELSE IF f.item.kind = "Function" THEN Res(Leaf("Function", Qual(f.item)), f.ctx)
       ELSE IF f.item.kind = "Effect" THEN Res(Leaf("Effect", Qual(f.item)), f.ctx)
       ELSE Res(Leaf("Error", <<>>), report(f.ctx, Diag("ExpectedFunction", <<>>)))

\* the closure of impl Resolve for PatternKind
PatternKind_match(n, c) ==
    CASE n.k = "PVariable" ->
           LET a == add_pattern(c, n.name[1])
           IN IF a.ok THEN Res(Leaf("PatVariable", n.name), a.ctx)
              ELSE Res(Leaf("PatError", <<>>), a.ctx)
      [] n.k = "PConstructor" -> call("PatApplication_resolve", Node("PApplication", n.name, <<>>), c)
      [] n.k = "POr" -> call("PatOr_resolve", n, c)
      [] n.k = "PApplication" -> call("PatApplication_resolve", n, c)
      [] n.k = "PParenthesis" -> call("PatternKind_resolve", n.subs[1], c)
      [] n.k = "PLiteral" -> Res(Leaf("PatLiteral", n.name), c)
      [] OTHER -> Res(Leaf("PatWildcard", <<>>), c)

\* impl Resolve for PatternKind
PatternKind_resolve(n, c) == scope_pattern(c, "PatternKind_match", n)

\* the map of impl Resolve for Vec<T>, T a pattern
EachPattern_resolve(ns, c) ==
    IF ns = <<>> THEN Res(<<>>, c)
    ELSE LET h == call("PatternKind_resolve", Head(ns), c)
             t == call("EachPattern_resolve", Tail(ns), h.ctx)
         IN Res(<<h.out>> \o t.out, t.ctx)

\* impl Resolve for Vec<Pattern>
VecPattern_resolve(ns, c) == scope_pattern(c, "EachPattern_resolve", ns)

\* impl Resolve for PatOr
PatOr_resolve(n, c) ==
    LET scopes == scope_or_pattern(c, n.subs[1], n.subs[2])
    IN IF scopes.some
       THEN Res(Node("PatOr", <<>>, <<scopes.left, scopes.right>>), scopes.ctx)
       ELSE Res(Leaf("PatError", <<>>), scopes.ctx)

\* impl Resolve for PatApplication
PatApplication_resolve(n, c) ==
    LET f == find_value(c, n.name)
    IN IF f.item = NoItem THEN Res(Leaf("PatError", <<>>), f.ctx)
       ELSE IF f.item.kind # "Constructor"
       THEN Res(Leaf("PatError", <<>>), report(f.ctx, Diag("ExpectedConstructor", <<>>)))
       ELSE LET args == call("VecPattern_resolve", n.subs, f.ctx)
            IN Res(Node("PatApplication", Qual(f.item), args.out), args.ctx)


\* impl Resolve for ExprKind (the variants fed by the inputs below)
ExprKind_resolve(n, c) ==
    CASE n.k = "Constructor" -> find_constructor_raw(n.name, c, "Constructor", "Error")
      [] n.k = "Variable" -> ExprKind_Variable(n, c)
      [] n.k = "Function" -> expect_function_or_effect(n.name, c)
      [] n.k = "Do" -> call("DoExpr_resolve", n, c)
      [] n.k = "Lambda" -> call("LambdaExpr_resolve", n, c)
      [] n.k = "Application" -> call("ApplicationExpr_resolve", n, c)
      [] n.k = "Let" -> call("LetExpr_resolve", n, c)
      [] n.k = "When" -> call("WhenExpr_resolve", n, c)
      [] n.k = "If" -> call("IfExpr_resolve", n, c)
      [] n.k = "Parenthesis" -> call("ExprKind_resolve", n.subs[1], c)
      [] OTHER -> Res(Leaf("Literal", n.name), c)

\* impl Resolve for Vec<T>, T an expression
VecExpr_resolve(ns, c) ==
    IF ns = <<>> THEN Res(<<>>, c)
    ELSE LET h == call("ExprKind_resolve", Head(ns), c)
             t == call("VecExpr_resolve", Tail(ns), h.ctx)
         IN Res(<<h.out>> \o t.out, t.ctx)

\* impl Resolve for LambdaExpr: subs = patterns, then the body
LambdaExpr_body(n, c) ==
    LET params == call("VecPattern_resolve", Front(n.subs), c)
        body == call("ExprKind_resolve", Last(n.subs), params.ctx)
    IN Res(Node("Lambda", <<>>, params.out \o <<body.out>>), body.ctx)

LambdaExpr_resolve(n, c) == scope(c, "Variable", "LambdaExpr_body", n)

\* impl Resolve for ApplicationExpr: subs = func, then the args
ApplicationExpr_resolve(n, c) ==
    LET r == call("VecExpr_resolve", n.subs, c)
    IN Res(Node("Application", <<>>, r.out), r.ctx)

\* impl Resolve for LetExpr: subs = <<pattern, value, body>>
LetExpr_bound(n, c) ==
    LET pattern == call("PatternKind_resolve", n.subs[1], c)
        value == call("ExprKind_resolve", n.subs[2], pattern.ctx)
    IN Res(<<pattern.out, value.out>>, value.ctx)

LetExpr_resolve(n, c) ==
    LET pv == scope(c, "Variable", "LetExpr_bound", n)
        body == call("ExprKind_resolve", n.subs[3], pv.ctx)
    IN Res(Node("Let", <<>>, pv.out \o <<body.out>>), body.ctx)

\* impl Resolve for PatternArm: subs = patterns, then expr, then guard
\* (guard is Leaf("None") when absent); each pattern is resolved on its own.
PatternArm_patterns(ns, c) ==
    IF ns = <<>> THEN Res(<<>>, c)
    ELSE LET h == call("PatternKind_resolve", Head(ns), c)
             t == call("PatternArm_patterns", Tail(ns), h.ctx)
         IN Res(<<h.out>> \o t.out, t.ctx)

PatternArm_body(n, c) ==
    LET k == Len(n.subs)
        pattern == call("PatternArm_patterns", SubSeq(n.subs, 1, k - 2), c)
        expr == call("ExprKind_resolve", n.subs[k - 1], pattern.ctx)
        guard == IF n.subs[k].k = "None" THEN Res(n.subs[k], expr.ctx)
                 ELSE call("ExprKind_resolve", n.subs[k], expr.ctx)
    IN Res(Node("PatternArm", <<>>, pattern.out \o <<expr.out, guard.out>>), guard.ctx)

PatternArm_resolve(n, c) == scope(c, "Variable", "PatternArm_body", n)

VecPatternArm_resolve(ns, c) ==
    IF ns = <<>> THEN Res(<<>>, c)
    ELSE LET h == call("PatternArm_resolve", Head(ns), c)
             t == call("VecPatternArm_resolve", Tail(ns), h.ctx)
         IN Res(<<h.out>> \o t.out, t.ctx)

\* impl Resolve for WhenExpr: subs = scrutinee, then the arms
WhenExpr_resolve(n, c) ==
    LET scrutinee == call("ExprKind_resolve", Head(n.subs), c)
        arms == call("VecPatternArm_resolve", Tail(n.subs), scrutinee.ctx)
    IN Res(Node("When", <<>>, <<scrutinee.out>> \o arms.out), arms.ctx)

\* impl Resolve for IfExpr with the arms in the order [False, True]
IfExpr_resolve_swapped(n, c) ==
    LET true_cons == find_constructor_raw(<<"Bool", "True">>, c, "PatApplication", "PatError")
        false_cons == find_constructor_raw(<<"Bool", "False">>, true_cons.ctx,
                                           "PatApplication", "PatError")
        cond == call("ExprKind_resolve", n.subs[1], false_cons.ctx)
        then_expr == call("ExprKind_resolve", n.subs[2], cond.ctx)
        else_expr == call("ExprKind_resolve", n.subs[3], then_expr.ctx)
    IN Res(Node("When", <<>>,
                <<cond.out,
                  Node("PatternArm", <<>>, <<false_cons.out, else_expr.out, NoNode>>),
                  Node("PatternArm", <<>>, <<true_cons.out, then_expr.out, NoNode>>)>>),
           else_expr.ctx)

\* impl Resolve for IfExpr: subs = <<cond, then_expr, else_expr>>
IfExpr_resolve(n, c) ==
    LET true_cons == find_constructor_raw(<<"Bool", "True">>, c, "PatApplication", "PatError")
        false_cons == find_constructor_raw(<<"Bool", "False">>, true_cons.ctx,
                                           "PatApplication", "PatError")
        cond == call("ExprKind_resolve", n.subs[1], false_cons.ctx)
        then_expr == call("ExprKind_resolve", n.subs[2], cond.ctx)
        else_expr == call("ExprKind_resolve", n.subs[3], then_expr.ctx)
    IN Res(Node("When", <<>>,
                <<cond.out,
                  Node("PatternArm", <<>>, <<true_cons.out, then_expr.out, NoNode>>),
                  Node("PatternArm", <<>>, <<false_cons.out, else_expr.out, NoNode>>)>>),
           else_expr.ctx)

\* impl Resolve for StatementKind / LetSttm: SLet subs = <<pattern, expr>>
StatementKind_resolve(n, c) ==
    CASE n.k = "SLet" ->
           LET pattern == call("PatternKind_resolve", n.subs[1], c)
               expr == call("ExprKind_resolve", n.subs[2], pattern.ctx)
           IN Res(Node("LetStatement", <<>>, <<pattern.out, expr.out>>), expr.ctx)
      [] n.k = "SExpr" ->
           LET expr == call("ExprKind_resolve", n.subs[1], c)
           IN Res(Node("ExprStatement", <<>>, <<expr.out>>), expr.ctx)
      [] OTHER -> Res(Leaf("StatementError", <<>>), c)

VecStatement_resolve(ns, c) ==
    IF ns = <<>> THEN Res(<<>>, c)
    ELSE LET h == call("StatementKind_resolve", Head(ns), c)
             t == call("VecStatement_resolve", Tail(ns), h.ctx)
         IN Res(<<h.out>> \o t.out, t.ctx)

\* impl Resolve for DoExpr: subs = the statements of the block
DoExpr_body(n, c) ==
    LET r == call("VecStatement_resolve", n.subs, c)
    IN Res(Node("Do", <<>>, r.out), r.ctx)

DoExpr_resolve(n, c) == scope(c, "Variable", "DoExpr_body", n)


\* impl Resolve for TypeBinder
TypeBinder_resolve(n, c) == Res(Leaf("TypeBinder", n.name), add(c, "TypeVariable", n.name[1]))

RECURSIVE VecTypeBinder_resolve(_, _)
VecTypeBinder_resolve(ns, c) ==
    IF ns = <<>> THEN Res(<<>>, c)
    ELSE LET h == call("TypeBinder_resolve", Head(ns), c)
             t == call("VecTypeBinder_resolve", Tail(ns), h.ctx)
         IN Res(<<h.out>> \o t.out, t.ctx)

\* impl Resolve for TypeDef: Synonym subs = <<type>>; Sum subs = constructors,
\* each with its argument types; Record subs = fields, each with its type.
RECURSIVE Members_resolve(_, _)
Members_resolve(ns, c) ==
    IF ns = <<>> THEN Res(<<>>, c)
    ELSE LET h == call("VecType_resolve", Head(ns).subs, c)
             t == call("Members_resolve", Tail(ns), h.ctx)
         IN Res(<<Node(Head(ns).k, Head(ns).name, h.out)>> \o t.out, t.ctx)

TypeDef_resolve(n, c) ==
    CASE n.k = "Synonym" ->
           LET r == call("TypeKind_resolve", n.subs[1], c)
           IN Res(Node("Synonym", <<>>, <<r.out>>), r.ctx)
      [] n.k \in {"Sum", "Record"} ->
           LET r == call("Members_resolve", n.subs, c)
           IN Res(Node(n.k, <<>>, r.out), r.ctx)
      [] OTHER -> Res(Leaf("Abstract", <<>>), c)

\* impl Resolve for TypeDecl: name = <<name>>, subs = binders, then the def
TypeDecl_body(n, c) ==
    LET id == get_current_id(c)
        binders == call("VecTypeBinder_resolve", Front(n.subs), id.ctx)
        def == call("TypeDef_resolve", Last(n.subs), binders.ctx)
    IN Res(Node("TypeDecl", <<id.id>> \o n.name, binders.out \o <<def.out>>), def.ctx)

TypeDecl_resolve(n, c) ==
    LET pushed == [c EXCEPT !.name = Append(@, n.name[1])]
        result == scope(pushed, "Variable", "TypeDecl_body", n)
    IN Res(result.out, [result.ctx EXCEPT !.name = Front(@)])

\* impl Resolve for EffectDecl: name = <<name>>, subs = binders, then the
\* fields, each with the types of its arguments and of its result
EffectDecl_body(n, c) ==
    LET id == get_current_id(c)
        binders == call("VecTypeBinder_resolve", Front(n.subs), id.ctx)
        fields == call("Members_resolve", Last(n.subs).subs, binders.ctx)
    IN Res(Node("EffectDecl", <<id.id>> \o n.name, binders.out \o <<Node("Fields", <<>>, fields.out)>>),
           fields.ctx)

EffectDecl_resolve(n, c) ==
    LET pushed == [c EXCEPT !.name = Append(@, n.name[1])]
        result == scope(pushed, "TypeVariable", "EffectDecl_body", n)
    IN Res(result.out, [result.ctx EXCEPT !.name = Front(@)])

\* impl Resolve for Binder: subs = <<pattern, type>>
Binder_resolve(n, c) ==
    LET pattern == call("PatternKind_resolve", n.subs[1], c)
        ty == call("TypeKind_resolve", n.subs[2], pattern.ctx)
    IN Res(Node("Binder", <<>>, <<pattern.out, ty.out>>), ty.ctx)

RECURSIVE VecBinder_resolve(_, _)
VecBinder_resolve(ns, c) ==
    IF ns = <<>> THEN Res(<<>>, c)
    ELSE LET h == call("Binder_resolve", Head(ns), c)
             t == call("VecBinder_resolve", Tail(ns), h.ctx)
         IN Res(<<h.out>> \o t.out, t.ctx)

\* impl Resolve for LetMode: Body subs = <<expr>>; Cases subs = the arms
LetMode_resolve(n, c) ==
    IF n.k = "Body"
    THEN LET expr == call("ExprKind_resolve", n.subs[1], c)
         IN Res(Node("LetMode", <<>>,
                     <<Node("PatternArm", <<>>, <<expr.out, Leaf("None", <<>>)>>)>>),
                expr.ctx)
    ELSE LET cases == call("VecPatternArm_resolve", n.subs, c)
         IN Res(Node("LetMode", <<>>, cases.out), cases.ctx)

\* impl Resolve for LetDecl: name = <<name>>, subs = binders, then the body
\* (no return type annotation)
LetDecl_body(n, c) ==
    LET binders == call("VecBinder_resolve", Front(n.subs), c)
        body == call("LetMode_resolve", Last(n.subs), binders.ctx)
    IN Res(Node("LetDecl", n.name, binders.out \o <<body.out>>), body.ctx)

LetDecl_resolve(n, c) == scope(c, "Variable", "LetDecl_body", n)

RECURSIVE TopLevel_resolve(_, _), VecTopLevel_resolve(_, _), ModuleDecl_resolve(_, _)

\* impl Resolve for TopLevel; Error and Use give None, here the node dropped
TopLevel_resolve(n, c) ==
    CASE n.k = "LetDecl" -> call("LetDecl_resolve", n, c)
      [] n.k = "TypeDecl" -> call("TypeDecl_resolve", n, c)
      [] n.k = "ModuleDecl" -> call("ModuleDecl_resolve", n, c)
      [] n.k = "EffectDecl" -> call("EffectDecl_resolve", n, c)
      [] OTHER -> Res(Leaf("None", <<>>), c)

\* the filter_map of ModuleInline and Program
VecTopLevel_resolve(ns, c) ==
    IF ns = <<>> THEN Res(<<>>, c)
    ELSE LET h == call("TopLevel_resolve", Head(ns), c)
             t == call("VecTopLevel_resolve", Tail(ns), h.ctx)
         IN Res((IF h.out.k = "None" THEN <<>> ELSE <<h.out>>) \o t.out, t.ctx)

\* impl Resolve for ModuleDecl: name = <<name>>, subs = the top levels
ModuleDecl_resolve(n, c) ==
    LET pushed == [c EXCEPT !.name = Append(@, n.name[1])]
        id == get_current_id(pushed)
        decls == call("VecTopLevel_resolve", n.subs, id.ctx)
    IN Res(Node("ModuleDecl", <<id.id>> \o n.name, decls.out),
           [decls.ctx EXCEPT !.name = Front(@)])

\* impl Resolve for Program
Program_resolve(n, c) ==
    LET decls == call("VecTopLevel_resolve", n.subs, c)
    IN Res(Node("Module", <<>>, decls.out), decls.ctx)

\* the closures of lib.rs and the pattern and expression impls
call(fun, n, c) ==
    CASE fun = "TypeKind_resolve" -> TypeKind_resolve(n, c)
      [] fun = "VecType_resolve" -> VecType_resolve(n, c)
      [] fun = "PatternKind_match" -> PatternKind_match(n, c)
      [] fun = "PatternKind_resolve" -> PatternKind_resolve(n, c)
      [] fun = "EachPattern_resolve" -> EachPattern_resolve(n, c)
      [] fun = "VecPattern_resolve" -> VecPattern_resolve(n, c)
      [] fun = "PatOr_resolve" -> PatOr_resolve(n, c)
      [] fun = "PatApplication_resolve" -> PatApplication_resolve(n, c)
      [] fun = "ExprKind_resolve" -> ExprKind_resolve(n, c)
      [] fun = "VecExpr_resolve" -> VecExpr_resolve(n, c)
      [] fun = "LambdaExpr_body" -> LambdaExpr_body(n, c)
      [] fun = "LambdaExpr_resolve" -> LambdaExpr_resolve(n, c)
      [] fun = "ApplicationExpr_resolve" -> ApplicationExpr_resolve(n, c)
      [] fun = "LetExpr_bound" -> LetExpr_bound(n, c)
      [] fun = "LetExpr_resolve" -> LetExpr_resolve(n, c)
      [] fun = "PatternArm_patterns" -> PatternArm_patterns(n, c)
      [] fun = "PatternArm_body" -> PatternArm_body(n, c)
      [] fun = "PatternArm_resolve" -> PatternArm_resolve(n, c)
      [] fun = "VecPatternArm_resolve" -> VecPatternArm_resolve(n, c)
      [] fun = "WhenExpr_resolve" -> WhenExpr_resolve(n, c)
      [] fun = "EffectDecl_body" -> EffectDecl_body(n, c)
      [] fun = "EffectDecl_resolve" -> EffectDecl_resolve(n, c)
      [] fun = "IfExpr_resolve" -> IfExpr_resolve(n, c)
      [] fun = "StatementKind_resolve" -> StatementKind_resolve(n, c)
      [] fun = "VecStatement_resolve" -> VecStatement_resolve(n, c)
      [] fun = "DoExpr_body" -> DoExpr_body(n, c)
      [] fun = "DoExpr_resolve" -> DoExpr_resolve(n, c)
      [] fun = "TypeBinder_resolve" -> TypeBinder_resolve(n, c)
      [] fun = "VecTypeBinder_resolve" -> VecTypeBinder_resolve(n, c)
      [] fun = "Members_resolve" -> Members_resolve(n, c)
      [] fun = "TypeDef_resolve" -> TypeDef_resolve(n, c)
      [] fun = "TypeDecl_body" -> TypeDecl_body(n, c)
      [] fun = "TypeDecl_resolve" -> TypeDecl_resolve(n, c)
      [] fun = "Binder_resolve" -> Binder_resolve(n, c)
      [] fun = "VecBinder_resolve" -> VecBinder_resolve(n, c)
      [] fun = "LetMode_resolve" -> LetMode_resolve(n, c)
      [] fun = "LetDecl_body" -> LetDecl_body(n, c)
      [] fun = "LetDecl_resolve" -> LetDecl_resolve(n, c)
      [] fun = "TopLevel_resolve" -> TopLevel_resolve(n, c)
      [] fun = "VecTopLevel_resolve" -> VecTopLevel_resolve(n, c)
      [] fun = "ModuleDecl_resolve" -> ModuleDecl_resolve(n, c)
      [] fun = "Program_resolve" -> Program_resolve(n, c)
      [] OTHER -> Panicked(c)


(***************************************************************************)
(* resolve.rs: the Context of the other resolver (lines 28-206).  Its      *)
(* Modules (declare.rs) is not part of the sources at hand: the ModuleTree *)
(* is TreeFind and definitions[ns].decls is read off the registry, as      *)
(* spec.md sections 3 and 4.3 describe them.  Names of resolve.rs that     *)
(* lib.rs has too carry the prefix R_.                                     *)
(***************************************************************************)
DataType(typ, symbol) == [typ |-> typ, symbol |-> symbol]

decls(ns) ==
    {DataType("Let", s) : s \in {v \in DOMAIN namespaces[ns].values :
                                   namespaces[ns].values[v].kind = "Function"}}
    \cup {DataType("Constructor", s) : s \in {v \in DOMAIN namespaces[ns].values :
                                   namespaces[ns].values[v].kind = "Constructor"}}
    \cup {DataType("Type", s) : s \in DOMAIN namespaces[ns].types}

\* resolved::Qualified: Resolved{canonical, last} or Error
Resolved(canonical, last) == <<canonical, last>>
QError == <<>>

\* ImportMap (ambiguity.rs): short name -> the candidates imported for it
ImportMap_add(imports, name, qualified) ==
    [k \in DOMAIN imports \cup {name} |->
        IF k \in DOMAIN imports
        THEN (IF k = name THEN imports[k] \cup {qualified} ELSE imports[k])
        ELSE {qualified}]
is_ambiguous(res) == Cardinality(res) > 1
get_canonical(res) == CHOOSE q \in res : TRUE

\* Context::new
NewContext(namespace) ==
    [captured |-> <<>>, reporter |-> <<>>, scopes |-> Kaleidoscope,
     uses |-> <<>>, imports |-> <<>>, namespace |-> namespace, panicked |-> FALSE]

R_report(c, message) == [c EXCEPT !.reporter = Append(@, message)]

\* Context::canonicalize without the alias table
canonicalize_without_uses(c, path) ==
    IF path = <<>> THEN [ok |-> TRUE, id |-> NoId, ctx |-> c]
    ELSE IF TreeFind(path) # NoId THEN [ok |-> TRUE, id |-> TreeFind(path), ctx |-> c]
    ELSE [ok |-> FALSE, id |-> NoId, ctx |-> R_report(c, Diag("CannotFindModule", path))]

\* Context::canonicalize: Ok(Some(id)), Ok(None) or Err(()) as [ok, id]
canonicalize(c, path) ==
    IF path = <<>> THEN [ok |-> TRUE, id |-> NoId, ctx |-> c]
    ELSE LET aliased == Head(path) \in DOMAIN c.uses /\ c.uses[Head(path)] \in TreePaths
             res == IF aliased THEN TreeFind(c.uses[Head(path)] \o Tail(path))
                    ELSE TreeFind(path)
         IN IF res # NoId THEN [ok |-> TRUE, id |-> res, ctx |-> c]
            ELSE [ok |-> FALSE, id |-> NoId,
                  ctx |-> R_report(c, Diag("CannotFindModule", path))]

\* find_import taking the first candidate of an ambiguous import
find_import_first_candidate(c, name, report_) ==
    IF name \in DOMAIN c.imports
    THEN [q |-> get_canonical(c.imports[name]), ctx |-> c]
    ELSE IF name \in decls(c.namespace)
    THEN [q |-> Resolved(c.namespace, name.symbol), ctx |-> c]
    ELSE [q |-> QError,
          ctx |-> IF report_ THEN R_report(c, Diag("CannotFind", <<name.symbol>>)) ELSE c]

\* Context::find_import reporting whatever the caller asked for
find_import_always_reports(c, name, report_) ==
    IF name \in DOMAIN c.imports
    THEN IF is_ambiguous(c.imports[name])
         THEN [q |-> QError, ctx |-> R_report(c, Diag("AmbiguousImport", <<name.symbol>>))]
         ELSE IF get_canonical(c.imports[name]) = QError
         THEN [q |-> QError, ctx |-> c]
         ELSE IF name \notin decls(get_canonical(c.imports[name])[1])
         THEN [q |-> QError, ctx |-> R_report(c, Diag("CannotFind", <<name.symbol>>))]
         ELSE [q |-> get_canonical(c.imports[name]), ctx |-> c]
    ELSE IF name \in decls(c.namespace)
    THEN [q |-> Resolved(c.namespace, name.symbol), ctx |-> c]
    ELSE [q |-> QError, ctx |-> R_report(c, Diag("CannotFind", <<name.symbol>>))]

\* Context::find_import asking the current namespace first
find_import_own_first(c, name, report_) ==
    IF name \in decls(c.namespace)
    THEN [q |-> Resolved(c.namespace, name.symbol), ctx |-> c]
    ELSE IF name \in DOMAIN c.imports
    THEN IF is_ambiguous(c.imports[name])
         THEN [q |-> QError, ctx |-> R_report(c, Diag("AmbiguousImport", <<name.symbol>>))]
         ELSE IF get_canonical(c.imports[name]) = QError
         THEN [q |-> QError, ctx |-> c]
         ELSE IF name \notin decls(get_canonical(c.imports[name])[1])
         THEN [q |-> QError,
               ctx |-> IF report_ THEN R_report(c, Diag("CannotFind", <<name.symbol>>))
                       ELSE c]
         ELSE [q |-> get_canonical(c.imports[name]), ctx |-> c]
    ELSE [q |-> QError,
          ctx |-> IF report_ THEN R_report(c, Diag("CannotFind", <<name.symbol>>)) ELSE c]

\* Context::find_import
find_import(c, name, report_) ==
    IF name \in DOMAIN c.imports
    THEN IF is_ambiguous(c.imports[name])
         THEN [q |-> QError, ctx |-> R_report(c, Diag("AmbiguousImport", <<name.symbol>>))]
         ELSE IF get_canonical(c.imports[name]) = QError
         THEN [q |-> QError, ctx |-> c]
         ELSE IF name \notin decls(get_canonical(c.imports[name])[1])
         THEN [q |-> QError,
               ctx |-> IF report_ THEN R_report(c, Diag("CannotFind", <<name.symbol>>))
                       ELSE c]
         ELSE [q |-> get_canonical(c.imports[name]), ctx |-> c]
    ELSE IF name \in decls(c.namespace)
    THEN [q |-> Resolved(c.namespace, name.symbol), ctx |-> c]
    ELSE [q |-> QError,
          ctx |-> IF report_ THEN R_report(c, Diag("CannotFind", <<name.symbol>>)) ELSE c]

\* Context::find_on_namespace
find_on_namespace(c, name, namespace) ==
    IF name \in decls(namespace)
    THEN [q |-> Resolved(namespace, name.symbol), ctx |-> c]
    ELSE [q |-> QError, ctx |-> c]

\* Context::find: qualified is the segments, then last
R_find(c, qualified, report_, typ) ==
    LET canonical == canonicalize(c, Front(qualified))
        data == DataType(typ, Last(qualified))
    IN IF ~canonical.ok THEN [q |-> QError, ctx |-> canonical.ctx]
       ELSE IF canonical.id # NoId
       THEN find_on_namespace(canonical.ctx, data, canonical.id)
       ELSE find_import(canonical.ctx, data, report_)

(***************************************************************************)
(* resolve.rs: impl Resolve (lines 208-775).  Input variants of patterns   *)
(* carry the prefix P, of types T, of statements S; outputs as for lib.rs, *)
(* a Qualified in the output being the name of the node.                   *)
(***************************************************************************)
RECURSIVE R_call(_, _, _)

\* Context::scope::<T>
R_scope(c, T, fun, n) ==
    LET r == R_call(fun, n, push(c, T))
    IN [out |-> r.out, ctx |-> pop(r.ctx, T)]

\* impl Resolve for TypeKind (Arrow, Application, Forall are not fed)
R_TypeKind_resolve(n, c) ==
    CASE n.k = "TUpper" ->
           LET upper == R_find(c, n.name, TRUE, "Type")
           IN Res(Leaf("Upper", upper.q), upper.ctx)
      [] n.k = "TLower" -> Res(Leaf("Lower", n.name), c)
      [] OTHER -> Res(Leaf("Unit", <<>>), c)

\* impl Resolve for Vec<T>, T a pattern
R_VecPattern_resolve(ns, c) ==
    IF ns = <<>> THEN Res(<<>>, c)
    ELSE LET h == R_call("R_PatternKind_resolve", Head(ns), c)
             t == R_call("R_VecPattern_resolve", Tail(ns), h.ctx)
         IN Res(<<h.out>> \o t.out, t.ctx)

\* impl Resolve for PatApplication: name = func, subs = args
R_PatApplication_resolve(n, c) ==
    LET cons == R_find(c, n.name, TRUE, "Constructor")
        args == R_call("R_VecPattern_resolve", n.subs, cons.ctx)
    IN Res(Node("PatApplication", cons.q, args.out), args.ctx)

\* The `for key in symmetric_difference` loop of PatOr::resolve.
RECURSIVE R_report_all(_, _, _)
R_report_all(c, kind, keys) ==
    IF keys = <<>> THEN c
    ELSE R_report_all(R_report(c, Diag(kind, <<Head(keys)>>)), kind, Tail(keys))

\* impl Resolve for PatOr: subs = <<left, right>>
R_PatOr_resolve(n, c) ==
    LET left_op == R_call("R_PatternKind_resolve", n.subs[1],
                          [c EXCEPT !.captured = Append(@, {})])
        left == Last(left_op.ctx.captured)
        right_op == R_call("R_PatternKind_resolve", n.subs[2],
                           [left_op.ctx EXCEPT !.captured = Append(Front(@), {})])
        right == Last(right_op.ctx.captured)
        popped == [right_op.ctx EXCEPT !.captured = Front(@)]
        symmetric_difference == right \ left
        reported == R_report_all(popped, "VariableNotBoundOnBothSides",
                                 SetToSeq(symmetric_difference))
    IN IF reported.captured = <<>> THEN Panicked(reported)
       ELSE Res(Node("PatOr", <<>>, <<left_op.out, right_op.out>>),
                [reported EXCEPT !.captured[Len(reported.captured)] = @ \cup left])

\* the match of impl Resolve for PatternKind (Annotation is not fed)
R_PatternKind_match(n, c) ==
    CASE n.k = "PUpper" ->
           LET canonical == R_find(c, n.name, TRUE, "Constructor")
           IN Res(Leaf("PatUpper", canonical.q), canonical.ctx)
      [] n.k = "PLower" ->
           IF \E i \in DOMAIN c.captured : n.name[1] \in c.captured[i]
           THEN Res(Leaf("PatLower", n.name),
                    R_report(c, Diag("VariableAlreadyCaptured", n.name)))
           ELSE Res(Leaf("PatLower", n.name),
                    [c EXCEPT !.captured[Len(c.captured)] = @ \cup {n.name[1]}])
      [] n.k = "POr" -> R_call("R_PatOr_resolve", n, c)
      [] n.k = "PLiteral" -> Res(Leaf("PatLiteral", n.name), c)
      [] n.k = "PApplication" -> R_call("R_PatApplication_resolve", n, c)
      [] OTHER -> Res(Leaf("PatWildcard", <<>>), c)

\* impl Resolve for PatternKind
R_PatternKind_resolve(n, c) ==
    LET not_capturing == c.captured = <<>>
        result == R_call("R_PatternKind_match", n,
                         IF not_capturing THEN [c EXCEPT !.captured = Append(@, {})]
                         ELSE c)
    IN IF not_capturing
       THEN IF result.ctx.captured = <<>> THEN Panicked(result.ctx)
            ELSE Res(result.out,
                     add_all([result.ctx EXCEPT !.captured = Front(@)], "Variable",
                             SetToSeq(Last(result.ctx.captured))))
       ELSE result

\* ExprKind::Ident of impl Resolve for ExprKind: name = segments, then last
R_ExprKind_Ident(n, c) ==
    IF contains(c, "Variable", Last(n.name)) /\ Front(n.name) = <<>>
    THEN Res(Leaf("Variable", <<Last(n.name)>>), c)
    ELSE LET canonical == R_find(c, n.name, FALSE, "Let")
             constructor == R_find(canonical.ctx, n.name, TRUE, "Constructor")
         IN IF canonical.q # QError THEN Res(Leaf("Function", canonical.q), canonical.ctx)
            ELSE Res(Leaf("Constructor", constructor.q), constructor.ctx)

\* impl Resolve for Vec<T>, T an expression
R_VecExpr_resolve(ns, c) ==
    IF ns = <<>> THEN Res(<<>>, c)
    ELSE LET h == R_call("R_ExprKind_resolve", Head(ns), c)
             t == R_call("R_VecExpr_resolve", Tail(ns), h.ctx)
         IN Res(<<h.out>> \o t.out, t.ctx)

\* impl Resolve for LambdaExpr: subs = <<pattern, body>>
R_LambdaExpr_resolve(n, c) ==
    LET pattern == R_call("R_PatternKind_resolve", n.subs[1], c)
        body == R_call("R_ExprKind_resolve", n.subs[2], pattern.ctx)
    IN Res(Node("Lambda", <<>>, <<pattern.out, body.out>>), body.ctx)

\* impl Resolve for ApplicationExpr: subs = func, then the args
R_ApplicationExpr_resolve(n, c) ==
    LET func == R_call("R_ExprKind_resolve", Head(n.subs), c)
        args == R_call("R_VecExpr_resolve", Tail(n.subs), func.ctx)
    IN Res(Node("Application", <<>>, <<func.out>> \o args.out), args.ctx)

\* impl Resolve for LetExpr: subs = <<name, value, body>>
R_LetExpr_resolve(n, c) ==
    LET name == R_call("R_PatternKind_resolve", n.subs[1], c)
        value == R_call("R_ExprKind_resolve", n.subs[2], name.ctx)
        body == R_call("R_ExprKind_resolve", n.subs[3], value.ctx)
    IN Res(Node("Let", <<>>, <<name.out, value.out, body.out>>), body.ctx)

\* impl Resolve for WhenArm: subs = <<pattern, then>>
R_WhenArm_body(n, c) ==
    LET pattern == R_call("R_PatternKind_resolve", n.subs[1], c)
        then == R_call("R_ExprKind_resolve", n.subs[2], pattern.ctx)
    IN Res(Node("WhenArm", <<>>, <<pattern.out, then.out>>), then.ctx)

R_WhenArm_resolve(n, c) == R_scope(c, "Variable", "R_WhenArm_body", n)

R_VecWhenArm_resolve(ns, c) ==
    IF ns = <<>> THEN Res(<<>>, c)
    ELSE LET h == R_call("R_WhenArm_resolve", Head(ns), c)
             t == R_call("R_VecWhenArm_resolve", Tail(ns), h.ctx)
         IN Res(<<h.out>> \o t.out, t.ctx)

\* impl Resolve for WhenExpr: subs = scrutinee, then the arms
R_WhenExpr_resolve(n, c) ==
    LET scrutinee == R_call("R_ExprKind_resolve", Head(n.subs), c)
        arms == R_call("R_VecWhenArm_resolve", Tail(n.subs), scrutinee.ctx)
    IN Res(Node("When", <<>>, <<scrutinee.out>> \o arms.out), arms.ctx)

\* impl Resolve for StatementKind / LetStmt: SLet subs = <<name, expr>>
R_StatementKind_resolve(n, c) ==
    CASE n.k = "SLet" ->
           LET name == R_call("R_PatternKind_resolve", n.subs[1], c)
               expr == R_call("R_ExprKind_resolve", n.subs[2], name.ctx)
           IN Res(Node("LetStatement", <<>>, <<name.out, expr.out>>), expr.ctx)
      [] n.k = "SExpr" ->
           LET expr == R_call("R_ExprKind_resolve", n.subs[1], c)
           IN Res(Node("ExprStatement", <<>>, <<expr.out>>), expr.ctx)
      [] OTHER -> Res(Leaf("StatementError", <<>>), c)

R_VecStatement_resolve(ns, c) ==
    IF ns = <<>> THEN Res(<<>>, c)
    ELSE LET h == R_call("R_StatementKind_resolve", Head(ns), c)
             t == R_call("R_VecStatement_resolve", Tail(ns), h.ctx)
         IN Res(<<h.out>> \o t.out, t.ctx)

\* impl Resolve for Block: subs = the statements
R_Block_body(n, c) ==
    LET statements == R_call("R_VecStatement_resolve", n.subs, c)
    IN Res(Node("Block", <<>>, statements.out), statements.ctx)

R_Block_resolve(n, c) == R_scope(c, "Variable", "R_Block_body", n)

\* impl Resolve for ExprKind (Acessor, Binary, If, Annotation are not fed)
R_ExprKind_resolve(n, c) ==
    CASE n.k = "Ident" -> R_ExprKind_Ident(n, c)
      [] n.k = "Lambda" -> R_call("R_LambdaExpr_resolve", n, c)
      [] n.k = "Application" -> R_call("R_ApplicationExpr_resolve", n, c)
      [] n.k = "Let" -> R_call("R_LetExpr_resolve", n, c)
      [] n.k = "When" -> R_call("R_WhenExpr_resolve", n, c)
      [] n.k = "Block" -> R_call("R_Block_resolve", n, c)
      [] OTHER -> Res(Leaf("Literal", n.name), c)

\* impl Resolve for LetCase: subs = patterns, then the body
R_LetCase_body(n, c) ==
    LET patterns == R_call("R_VecPattern_resolve", Front(n.subs), c)
        body == R_call("R_ExprKind_resolve", Last(n.subs), patterns.ctx)
    IN Res(Node("LetCase", <<>>, patterns.out \o <<body.out>>), body.ctx)

R_LetCase_resolve(n, c) == R_scope(c, "Variable", "R_LetCase_body", n)

R_VecLetCase_resolve(ns, c) ==
    IF ns = <<>> THEN Res(<<>>, c)
    ELSE LET h == R_call("R_LetCase_resolve", Head(ns), c)
             t == R_call("R_VecLetCase_resolve", Tail(ns), h.ctx)
         IN Res(<<h.out>> \o t.out, t.ctx)

\* impl Resolve for (T, U): a parameter, subs = <<pattern, type>>
R_Param_resolve(n, c) ==
    LET pattern == R_call("R_PatternKind_resolve", n.subs[1], c)
        ty == R_call("R_TypeKind_resolve", n.subs[2], pattern.ctx)
    IN Res(Node("Param", <<>>, <<pattern.out, ty.out>>), ty.ctx)

R_VecParam_resolve(ns, c) ==
    IF ns = <<>> THEN Res(<<>>, c)
    ELSE LET h == R_call("R_Param_resolve", Head(ns), c)
             t == R_call("R_VecParam_resolve", Tail(ns), h.ctx)
         IN Res(<<h.out>> \o t.out, t.ctx)

\* impl Resolve for LetDecl: name = <<name>>, subs = <<params, cases>>
R_LetDecl_body(n, c) ==
    LET params == R_call("R_VecParam_resolve", n.subs[1].subs, c)
        cases == R_call("R_VecLetCase_resolve", n.subs[2].subs, params.ctx)
    IN Res(Node("LetDecl", n.name,
                <<Node("params", <<>>, params.out), Node("cases", <<>>, cases.out)>>),
           cases.ctx)

R_LetDecl_resolve(n, c) == R_scope(c, "Variable", "R_LetDecl_body", n)

R_VecLetDecl_resolve(ns, c) ==
    IF ns = <<>> THEN Res(<<>>, c)
    ELSE LET h == R_call("R_LetDecl_resolve", Head(ns), c)
             t == R_call("R_VecLetDecl_resolve", Tail(ns), h.ctx)
         IN Res(<<h.out>> \o t.out, t.ctx)

\* impl Resolve for UseDecl: name = the path, subs = <<alias>> when aliased
RECURSIVE R_UseDecl_import(_, _, _)
R_UseDecl_import(c, id, keys) ==
    IF keys = <<>> THEN c
    ELSE R_UseDecl_import([c EXCEPT !.imports =
                              ImportMap_add(@, Head(keys), Resolved(id, Head(keys).symbol))],
                          id, Tail(keys))

\* UseDecl::resolve recording the alias before the path is looked up
R_UseDecl_resolve_alias_first(n, c) ==
    IF n.subs # <<>>
    THEN Res(NoNode, [c EXCEPT !.uses =
                 [a \in DOMAIN c.uses \cup {n.subs[1].name[1]} |->
                     IF a = n.subs[1].name[1] THEN n.name ELSE c.uses[a]]])
    ELSE IF n.name \notin TreePaths
    THEN Res(NoNode, R_report(c, Diag("CannotFindModule", n.name)))
    ELSE Res(NoNode, R_UseDecl_import(c, TreeFind(n.name), SetToSeq(decls(TreeFind(n.name)))))

R_UseDecl_resolve(n, c) ==
    IF n.name \notin TreePaths
    THEN Res(NoNode, R_report(c, Diag("CannotFindModule", n.name)))
    ELSE IF n.subs # <<>>
    THEN Res(NoNode, [c EXCEPT !.uses =
                 [a \in DOMAIN c.uses \cup {n.subs[1].name[1]} |->
                     IF a = n.subs[1].name[1] THEN n.name ELSE c.uses[a]]])
    ELSE Res(NoNode, R_UseDecl_import(c, TreeFind(n.name), SetToSeq(decls(TreeFind(n.name)))))

R_VecUseDecl_resolve(ns, c) ==
    IF ns = <<>> THEN Res(<<>>, c)
    ELSE LET h == R_call("R_UseDecl_resolve", Head(ns), c)
             t == R_call("R_VecUseDecl_resolve", Tail(ns), h.ctx)
         IN Res(<<>>, t.ctx)

\* impl Resolve for Program: subs = <<uses, types, lets>> (types are not fed)
R_Program_resolve(n, c) ==
    LET uses == R_call("R_VecUseDecl_resolve", n.subs[1].subs, c)
        lets == R_call("R_VecLetDecl_resolve", n.subs[3].subs, uses.ctx)
    IN Res(Node("Program", <<>>, <<Node("types", <<>>, <<>>), Node("lets", <<>>, lets.out)>>),
           lets.ctx)

\* the impls and closures of resolve.rs by name
R_call(fun, n, c) ==
    CASE fun = "R_PatternKind_resolve" -> R_PatternKind_resolve(n, c)
      [] fun = "R_TypeKind_resolve" -> R_TypeKind_resolve(n, c)
      [] fun = "R_VecPattern_resolve" -> R_VecPattern_resolve(n, c)
      [] fun = "R_PatApplication_resolve" -> R_PatApplication_resolve(n, c)
      [] fun = "R_PatOr_resolve" -> R_PatOr_resolve(n, c)
      [] fun = "R_PatternKind_match" -> R_PatternKind_match(n, c)
      [] fun = "R_VecExpr_resolve" -> R_VecExpr_resolve(n, c)
      [] fun = "R_LambdaExpr_resolve" -> R_LambdaExpr_resolve(n, c)
      [] fun = "R_ApplicationExpr_resolve" -> R_ApplicationExpr_resolve(n, c)
      [] fun = "R_LetExpr_resolve" -> R_LetExpr_resolve(n, c)
      [] fun = "R_WhenArm_body" -> R_WhenArm_body(n, c)
      [] fun = "R_WhenArm_resolve" -> R_WhenArm_resolve(n, c)
      [] fun = "R_VecWhenArm_resolve" -> R_VecWhenArm_resolve(n, c)
      [] fun = "R_WhenExpr_resolve" -> R_WhenExpr_resolve(n, c)
      [] fun = "R_StatementKind_resolve" -> R_StatementKind_resolve(n, c)
      [] fun = "R_VecStatement_resolve" -> R_VecStatement_resolve(n, c)
      [] fun = "R_Block_body" -> R_Block_body(n, c)
      [] fun = "R_Block_resolve" -> R_Block_resolve(n, c)
      [] fun = "R_ExprKind_resolve" -> R_ExprKind_resolve(n, c)
      [] fun = "R_LetCase_body" -> R_LetCase_body(n, c)
      [] fun = "R_LetCase_resolve" -> R_LetCase_resolve(n, c)
      [] fun = "R_VecLetCase_resolve" -> R_VecLetCase_resolve(n, c)
      [] fun = "R_Param_resolve" -> R_Param_resolve(n, c)
      [] fun = "R_VecParam_resolve" -> R_VecParam_resolve(n, c)
      [] fun = "R_LetDecl_body" -> R_LetDecl_body(n, c)
      [] fun = "R_LetDecl_resolve" -> R_LetDecl_resolve(n, c)
      [] fun = "R_VecLetDecl_resolve" -> R_VecLetDecl_resolve(n, c)
      [] fun = "R_UseDecl_resolve" -> R_UseDecl_resolve(n, c)
      [] fun = "R_VecUseDecl_resolve" -> R_VecUseDecl_resolve(n, c)
      [] fun = "R_Program_resolve" -> R_Program_resolve(n, c)
      [] OTHER -> Panicked(c)


(***************************************************************************)
(* Reading trees: the name references of an input in traversal order, each *)
(* with the declaration names that enclose it (the current-module path     *)
(* while it is resolved), and the nodes they became in the output.         *)
(***************************************************************************)
RefKinds == {"Variable", "Function", "Constructor", "TType"}
OutRefKinds == {"Variable", "Function", "Constructor", "Effect", "Error", "Type", "TypeError"}
NamingKinds == {"ModuleDecl", "TypeDecl"}

RECURSIVE Refs(_, _), RefsOfSeq(_, _)
Refs(n, pos) ==
    IF n.k \in RefKinds THEN <<[ref |-> n, pos |-> pos]>>
    ELSE RefsOfSeq(n.subs, IF n.k \in NamingKinds THEN pos \o n.name ELSE pos)
RefsOfSeq(ns, pos) ==
    IF ns = <<>> THEN <<>> ELSE Refs(Head(ns), pos) \o RefsOfSeq(Tail(ns), pos)

RECURSIVE OutRefs(_), OutRefsOfSeq(_)
OutRefs(n) == IF n.k \in OutRefKinds THEN <<n>> ELSE OutRefsOfSeq(n.subs)
OutRefsOfSeq(ns) ==
    IF ns = <<>> THEN <<>> ELSE OutRefs(Head(ns)) \o OutRefsOfSeq(Tail(ns))

HasDiag(reporter, kind) == \E i \in DOMAIN reporter : reporter[i].kind = kind
CountKind(reporter, kind) == Cardinality({i \in DOMAIN reporter : reporter[i].kind = kind})

(***************************************************************************)
(* Inputs of the lookup runs: one name reference, at the root, inside      *)
(* module M or N, or inside type T of module M.                            *)
(***************************************************************************)
Segments == {"M", "T", "X"}
Prefixes == SeqsUpTo(Segments, MaxPath - 1)
ValuePaths == {Append(p, l) : p \in Prefixes, l \in {"foo", "secret"}}
ConstructorPaths == {Append(p, l) : p \in Prefixes, l \in {"A", "K"}}
TypePaths == {Append(p, l) : p \in Prefixes, l \in {"S", "R"}}

LetOf(expr) == Node("LetDecl", <<"f">>, <<Node("Body", <<>>, <<expr>>)>>)
LetTyped(ty) ==
    Node("LetDecl", <<"f">>,
         <<Node("Binder", <<>>, <<Leaf("PWildcard", <<>>), ty>>),
           Node("Body", <<>>, <<Leaf("Literal", <<>>)>>)>>)
TypeOf(ty) == Node("TypeDecl", <<"T">>, <<Node("Synonym", <<>>, <<ty>>)>>)
In(pos, decl) == IF pos = <<>> THEN decl ELSE Node("ModuleDecl", pos, <<decl>>)
ProgramOf(decl) == Node("Program", <<>>, <<decl>>)

ValueRefs ==
    {Leaf("Function", p) : p \in ValuePaths}
    \cup {Leaf("Variable", <<l>>) : l \in {"foo", "secret"}}
    \cup {Leaf("Constructor", p) : p \in ConstructorPaths}

FindPrograms ==
    {ProgramOf(In(pos, LetOf(e))) : pos \in {<<>>, <<"M">>, <<"N">>}, e \in ValueRefs}
    \cup {ProgramOf(In(pos, LetTyped(Leaf("TType", p)))) :
            pos \in {<<>>, <<"M">>, <<"N">>}, p \in TypePaths}
    \cup {ProgramOf(In(<<"M">>, TypeOf(Leaf("TType", p)))) : p \in TypePaths}

(***************************************************************************)
(* The state machine: Context::new, then one Program::resolve.             *)
(***************************************************************************)
InitWith(configs) ==
    /\ namespaces \in {Registry(c) : c \in configs}
    /\ ctx = NewCtx
    /\ context = NewContext(RootId)
    /\ pc = "new"
    /\ input = NoNode
    /\ output = NoNode

\* lib.rs: Program::resolve(ctx) on a fresh Context
LibResolve(p) ==
    /\ pc = "new"
    /\ LET r == call("Program_resolve", p, ctx)
       IN /\ input' = p
          /\ IF r.ctx.panicked
             THEN pc' = "panicked" /\ output' = NoNode /\ ctx' = panic(ctx)
             ELSE pc' = "lib" /\ output' = r.out /\ ctx' = r.ctx
    /\ UNCHANGED <<namespaces, context>>

\* resolve.rs: Program::resolve(context) on a fresh Context
RsResolve(p) ==
    /\ pc = "new"
    /\ LET r == R_call("R_Program_resolve", p, context)
       IN /\ input' = p
          /\ IF r.ctx.panicked
             THEN pc' = "panicked" /\ output' = NoNode /\ context' = panic(context)
             ELSE pc' = "rs" /\ output' = r.out /\ context' = r.ctx
    /\ UNCHANGED <<namespaces, ctx>>

InitFind == InitWith({c \in RegConfigs : c.hasB})
NextFind == \E p \in FindPrograms : LibResolve(p)
SpecFind == InitFind /\ [][NextFind]_vars

(***************************************************************************)
(* Inputs of the binder runs, in the tree of either resolver (v is "lib"   *)
(* or "rs"): one function `f` at the root whose body is the expression.    *)
(***************************************************************************)
Var(v, x) == Leaf(IF v = "lib" THEN "PVariable" ELSE "PLower", <<x>>)
Wild(v) == Leaf("PWildcard", <<>>)
App(v, cons, args) == Node("PApplication", <<cons>>, args)
Or(v, l, r) == Node("POr", <<>>, <<l, r>>)

Lit == Leaf("Literal", <<>>)
Ref(v, x) == Leaf(IF v = "lib" THEN "Variable" ELSE "Ident", <<x>>)
QRef(v, path) == Leaf(IF v = "lib" THEN "Function" ELSE "Ident", path)
Lambda(v, pat, body) == Node("Lambda", <<>>, <<pat, body>>)
Let(v, pat, value, body) == Node("Let", <<>>, <<pat, value, body>>)
When(v, pat, body) ==
    Node("When", <<>>,
         <<Lit, IF v = "lib" THEN Node("PatternArm", <<>>, <<pat, body, NoNode>>)
                ELSE Node("WhenArm", <<>>, <<pat, body>>)>>)
Do(v, pat, value, next) ==
    Node(IF v = "lib" THEN "Do" ELSE "Block", <<>>,
         <<Node("SLet", <<>>, <<pat, value>>), Node("SExpr", <<>>, <<next>>)>>)
Apply(v, func, arg) == Node("Application", <<>>, <<func, arg>>)

ProgramIn(v, expr) ==
    IF v = "lib" THEN ProgramOf(LetOf(expr))
    ELSE Node("Program", <<>>,
              <<Node("uses", <<>>, <<>>), Node("types", <<>>, <<>>),
                Node("lets", <<>>,
                     <<Node("LetDecl", <<"f">>,
                            <<Node("params", <<>>, <<>>),
                              Node("cases", <<>>, <<Node("LetCase", <<>>, <<expr>>)>>)>>)>>)>>)

\* The body of `f` in an input, and what it became.
VersionOf(p) == IF p.subs[1].k = "uses" THEN "rs" ELSE "lib"
BodyOf(p) ==
    IF VersionOf(p) = "lib" THEN p.subs[1].subs[1].subs[1]
    ELSE p.subs[3].subs[1].subs[2].subs[1].subs[1]
OutBody ==
    IF pc = "lib" THEN output.subs[1].subs[1].subs[1].subs[1]
    ELSE output.subs[2].subs[1].subs[2].subs[1].subs[1]
Reporter == IF pc = "rs" THEN context.reporter ELSE ctx.reporter
DiagsOf(kinds, x) ==
    Cardinality({i \in DOMAIN Reporter : Reporter[i].kind \in kinds /\ Reporter[i].path = <<x>>})

(***************************************************************************)
(* The pattern runs: `when <literal> is P -> x y`, P a variable, a         *)
(* wildcard, a constructor application or an or-pattern.                   *)
(***************************************************************************)
Names == {"x", "y"}
Cons == {"A", "B"}
Leaves(v) == {Var(v, x) : x \in Names} \cup {Wild(v)}
Apps(v, n) == {App(v, c, args) : c \in Cons, args \in SeqsUpTo(Leaves(v), n) \ {<<>>}}
Branches(v) == Leaves(v) \cup Apps(v, MaxArgs - 1)
Patterns(v) ==
    Leaves(v) \cup Apps(v, MaxArgs) \cup {Or(v, l, r) : l \in Branches(v), r \in Branches(v)}
PatPrograms(v) ==
    {ProgramIn(v, When(v, P, Apply(v, Ref(v, "x"), Ref(v, "y")))) : P \in Patterns(v)}

InitPat == InitWith({c \in RegConfigs : c.visM = "Public" /\ c.visSecret = "Private"
                                        /\ ~c.ptM /\ c.hasFoo})
NextPat ==
    \/ \E p \in PatPrograms("lib") : LibResolve(p)
    \/ \E p \in PatPrograms("rs") : RsResolve(p)
SpecPat == InitPat /\ [][NextPat]_vars

\* The pattern of a pattern run and what it became, the two references of
\* the arm body and what they became.
ThePattern == BodyOf(input).subs[2].subs[1]
OutPattern == OutBody.subs[2].subs[1]
OutBodyRef(x) == IF x = "x" THEN OutBody.subs[2].subs[2].subs[1]
                 ELSE OutBody.subs[2].subs[2].subs[2]

(***************************************************************************)
(* The binder runs: a lambda, a let, a when-arm or a do-block binding a    *)
(* name, with a reference in its body or next to it.                       *)
(***************************************************************************)
BoundNames == {"x", "foo", "m"}
RefNames == BoundNames \cup {"fld"}
Binder(v, form, x, body) ==
    CASE form = "Lambda" -> Lambda(v, Var(v, x), body)
      [] form = "Let" -> Let(v, Var(v, x), Lit, body)
      [] form = "When" -> When(v, Var(v, x), body)
      [] OTHER -> Do(v, Var(v, x), Lit, body)
Forms == {"Lambda", "Let", "When", "Do"}
Inside(v) ==
    {Binder(v, form, x, Ref(v, y)) : form \in Forms, x \in BoundNames, y \in BoundNames}
    \cup {Binder(v, form, x, QRef(v, <<s, x>>)) :
            form \in Forms, x \in BoundNames, s \in {"M", "X"}}
Beside(v) ==
    {Apply(v, Binder(v, form, x, Lit), Ref(v, y)) :
        form \in Forms, x \in BoundNames, y \in BoundNames}
Alone(v) == {Ref(v, y) : y \in RefNames}
ExprPrograms(v) == {ProgramIn(v, e) : e \in Inside(v) \cup Beside(v) \cup Alone(v)}

InitExpr == InitWith({c \in RegConfigs : c.visM = "Public" /\ c.visSecret = "Private"
                                         /\ ~c.ptM /\ c.hasB})
NextExpr ==
    \/ \E p \in ExprPrograms("lib") : LibResolve(p)
    \/ \E p \in ExprPrograms("rs") : RsResolve(p)
SpecExpr == InitExpr /\ [][NextExpr]_vars


(***************************************************************************)
(* What a path names, read off the registry alone (visibility ignored).    *)
(***************************************************************************)
\* The namespace a prefix of module names leads to from `from`, or NoId.
RECURSIVE Reached(_, _)
Reached(prefix, from) ==
    IF prefix = <<>> THEN from
    ELSE IF from = NoId \/ Head(prefix) \notin DOMAIN namespaces[from].modules THEN NoId
    ELSE Reached(Tail(prefix), namespaces[from].modules[Head(prefix)].item)

\* Every module named by the prefix is Public.
RECURSIVE PublicPrefix(_, _)
PublicPrefix(prefix, from) ==
    \/ prefix = <<>>
    \/ from = NoId
    \/ Head(prefix) \notin DOMAIN namespaces[from].modules
    \/ /\ namespaces[from].modules[Head(prefix)].visibility = "Public"
       /\ PublicPrefix(Tail(prefix), namespaces[from].modules[Head(prefix)].item)

MapOf(ref) == IF ref.k = "TType" THEN "types" ELSE "values"
Declares(ns, fun, sym) == ns # NoId /\ sym \in DOMAIN namespaces[ns][fun]

\* The module being resolved at a position: a type declaration is part of
\* the module that holds it.
TypeDeclPaths == {<<"M", "T">>}
ModuleAt(pos) == TreeFind(IF pos \in TypeDeclPaths THEN Front(pos) ELSE pos)

\* The one reference of a lookup run, and what it became.
TheRef == Refs(input, <<>>)[1]
TheOut == OutRefs(output)[1]
IsErrorNode(n) == n.k \in {"Error", "TypeError", "PatError"}

(***************************************************************************)
(* C1: a qualified reference that leads to a Private declaration of        *)
(* namespace N reports PrivateDefinition and yields no item when the       *)
(* module being resolved is not N, and succeeds with no diagnostic from    *)
(* anywhere inside N, a type declaration of N included.  (Stated for paths *)
(* through Public modules into a namespace that is not pass-through.)      *)
(***************************************************************************)
C1_IsCase ==
    /\ pc = "lib"
    /\ Len(TheRef.ref.name) >= 2
    /\ PublicPrefix(Front(TheRef.ref.name), main)
    /\ LET N == Reached(Front(TheRef.ref.name), main)
       IN /\ Declares(N, MapOf(TheRef.ref), Last(TheRef.ref.name))
          /\ namespaces[N][MapOf(TheRef.ref)][Last(TheRef.ref.name)].visibility = "Private"
          /\ ~namespaces[N].pass_through

C1_PrivateAcrossModules ==
    C1_IsCase =>
        IF ModuleAt(TheRef.pos) # Reached(Front(TheRef.ref.name), main)
        THEN IsErrorNode(TheOut) /\ HasDiag(ctx.reporter, "PrivateDefinition")
        ELSE ~IsErrorNode(TheOut) /\ ctx.reporter = <<>>

(***************************************************************************)
(* C2: a path of two or more segments with a non-final segment that names  *)
(* no module of the namespace reached so far reports InvalidPath and       *)
(* yields no item.  (Stated for paths whose matched modules are Public.)   *)
(***************************************************************************)
C2_IsCase ==
    /\ pc = "lib"
    /\ Len(TheRef.ref.name) >= 2
    /\ PublicPrefix(Front(TheRef.ref.name), main)
    /\ Reached(Front(TheRef.ref.name), main) = NoId

C2_UnmatchedSegmentIsInvalidPath ==
    C2_IsCase => IsErrorNode(TheOut) /\ HasDiag(ctx.reporter, "InvalidPath")

(***************************************************************************)
(* C3: an unqualified reference, made while resolving module A, to a       *)
(* function A declares resolves to that declaration, canonical A.          *)
(***************************************************************************)
C3_IsCase ==
    /\ pc = "lib"
    /\ TheRef.ref.k = "Variable"
    /\ TheRef.pos \in TreePaths \ TypeDeclPaths
    /\ Declares(TreeFind(TheRef.pos), "values", TheRef.ref.name[1])
    /\ namespaces[TreeFind(TheRef.pos)].values[TheRef.ref.name[1]].kind = "Function"

C3_UnqualifiedResolvesInCurrentModule ==
    C3_IsCase => TheOut = Leaf("Function", <<TreeFind(TheRef.pos), TheRef.ref.name[1]>>)

(***************************************************************************)
(* What a pattern binds, read off the input alone.                         *)
(***************************************************************************)
VarKinds == {"PVariable", "PLower"}

RECURSIVE Occ(_, _), OccOfSeq(_, _)
\* The number of occurrences of variable x in a pattern.
Occ(p, x) ==
    IF p.k \in VarKinds THEN (IF p.name = <<x>> THEN 1 ELSE 0) ELSE OccOfSeq(p.subs, x)
OccOfSeq(ps, x) == IF ps = <<>> THEN 0 ELSE Occ(Head(ps), x) + OccOfSeq(Tail(ps), x)

Binds(p) == {x \in Names : Occ(p, x) >= 1}
IsLinear(p) == \A x \in Names : Occ(p, x) <= 1

RECURSIVE ConsOf(_), ConsOfSeq(_)
\* The constructors a pattern applies.
ConsOf(p) == (IF p.k = "PApplication" THEN {p.name[1]} ELSE {}) \cup ConsOfSeq(p.subs)
ConsOfSeq(ps) == IF ps = <<>> THEN {} ELSE ConsOf(Head(ps)) \cup ConsOfSeq(Tail(ps))

\* Every constructor of the pattern is a constructor the root declares.
ConsResolve(p) ==
    \A cons \in ConsOf(p) :
        /\ cons \in DOMAIN namespaces[RootId].values
        /\ namespaces[RootId].values[cons].kind = "Constructor"

Returned == pc \in {"lib", "rs"}
DuplicateKinds == {"DuplicatePattern", "VariableAlreadyCaptured"}

\* A binder expression of a binder run: the name it binds and the
\* expression in its body (the same places in the input and the output).
BinderKinds == {"Lambda", "Let", "When", "Do", "Block"}
BoundOf(e) ==
    CASE e.k \in {"Lambda", "Let"} -> e.subs[1].name[1]
      [] e.k = "When" -> e.subs[2].subs[1].name[1]
      [] OTHER -> e.subs[1].subs[1].name[1]
InnerOf(e) ==
    CASE e.k = "Lambda" -> e.subs[2]
      [] e.k = "Let" -> e.subs[3]
      [] e.k = "When" -> e.subs[2].subs[2]
      [] OTHER -> e.subs[2].subs[1]
IsLocalRef(r, x) == r.k \in {"Variable", "Ident"} /\ r.name = <<x>>

(***************************************************************************)
(* C4: in LetExpr::resolve of lib.rs the Variable frame of the let is      *)
(* still open while the body is resolved: a reference in the body to the   *)
(* name the let pattern binds is resolved as a local variable.             *)
(***************************************************************************)
C4_IsCase ==
    /\ pc # "new"
    /\ VersionOf(input) = "lib"
    /\ BodyOf(input).k = "Let"
    /\ IsLocalRef(InnerOf(BodyOf(input)), BoundOf(BodyOf(input)))

C4_LetBodySeesItsBinding ==
    C4_IsCase =>
        /\ pc = "lib"
        /\ InnerOf(OutBody) = Leaf("Variable", <<BoundOf(BodyOf(input))>>)

(***************************************************************************)
(* C5: an or-pattern of a when-arm whose branches bind the same names      *)
(* (each once) reports no VariableNotBoundOnBothSides and no duplicate,    *)
(* becomes an Or pattern node, and every name it binds is a local variable *)
(* in the arm body.                                                        *)
(***************************************************************************)
C5_IsCase ==
    /\ pc # "new"
    /\ ThePattern.k = "POr"
    /\ Binds(ThePattern.subs[1]) = Binds(ThePattern.subs[2])
    /\ IsLinear(ThePattern.subs[1]) /\ IsLinear(ThePattern.subs[2])

C5_SameNamesOrPatternSucceeds ==
    C5_IsCase =>
        /\ Returned
        /\ \A x \in Names :
             DiagsOf(DuplicateKinds \cup {"VariableNotBoundOnBothSides"}, x) = 0
        /\ OutPattern.k = "PatOr"
        /\ \A x \in Binds(ThePattern.subs[1]) : OutBodyRef(x) = Leaf("Variable", <<x>>)

(***************************************************************************)
(* C6: for an or-pattern, in both resolvers, VariableNotBoundOnBothSides   *)
(* is reported once for every name bound by exactly one of the branches,   *)
(* left-only and right-only names alike, and for no other name.  (Stated   *)
(* for branches whose constructors resolve, so that what a branch captures *)
(* is what it binds.)                                                      *)
(***************************************************************************)
C6_IsCase ==
    /\ pc # "new"
    /\ ThePattern.k = "POr"
    /\ ConsResolve(ThePattern)

SymmetricDifference(left, right) == (left \ right) \cup (right \ left)

C6_SymmetricDifferenceReported ==
    C6_IsCase =>
        /\ Returned
        /\ \A x \in Names :
             DiagsOf({"VariableNotBoundOnBothSides"}, x) =
                IF x \in SymmetricDifference(Binds(ThePattern.subs[1]),
                                             Binds(ThePattern.subs[2]))
                THEN 1 ELSE 0

(***************************************************************************)
(* C7: a constructor application with k >= 2 occurrences of one variable   *)
(* among its arguments.  As claimed: exactly one DuplicatePattern /        *)
(* VariableAlreadyCaptured is reported for the name and the pattern is     *)
(* still a resolved application.  As amended: one is reported for every    *)
(* occurrence after the first, k - 1 in all.  (In lib.rs the arguments are *)
(* resolved only when the constructor resolves.)                           *)
(***************************************************************************)
C7_IsCase ==
    /\ pc # "new"
    /\ ThePattern.k = "PApplication"
    /\ VersionOf(input) = "lib" => ConsResolve(ThePattern)

C8_IsCase ==
    /\ pc # "new"
    /\ BodyOf(input).k \in BinderKinds
    /\ ~(VersionOf(input) = "lib" /\ BodyOf(input).k = "Let")
    /\ IsLocalRef(InnerOf(BodyOf(input)), BoundOf(BodyOf(input)))

C8_IsPrefixed ==
    /\ pc # "new"
    /\ BodyOf(input).k \in BinderKinds
    /\ Len(InnerOf(BodyOf(input)).name) >= 2

C8_LocalBindingsWin ==
    /\ C8_IsCase =>
         /\ Returned
         /\ InnerOf(OutBody) = Leaf("Variable", <<BoundOf(BodyOf(input))>>)
         /\ Reporter = <<>>
    /\ C8_IsPrefixed => Returned /\ InnerOf(OutBody).k # "Variable"

C8_LocalShadowsGlobal ==
    /\ C8_IsCase
    /\ Returned
    /\ BoundOf(BodyOf(input)) \in {"foo", "m"}
    /\ BoundOf(BodyOf(input)) \in DOMAIN namespaces[RootId].values
    /\ InnerOf(OutBody).k = "Variable"

(***************************************************************************)
(* C9: in both resolvers, once a lambda, a let, a do-block or a when-arm   *)
(* has been resolved, a name bound only by its patterns is no longer in    *)
(* the Variable scope: a sibling expression after it that refers to the    *)
(* name is not resolved as a local variable.                               *)
(***************************************************************************)
C9_IsCase ==
    /\ Returned
    /\ BodyOf(input).k = "Application"
    /\ BodyOf(input).subs[1].k \in BinderKinds
    /\ IsLocalRef(BodyOf(input).subs[2], BoundOf(BodyOf(input).subs[1]))

C9_BindingsEndWithTheirNode == C9_IsCase => OutBody.subs[2].k # "Variable"

(***************************************************************************)
(* C10: Program::resolve runs to completion and returns a resolved tree    *)
(* whatever the names of the input resolve to; a failure only appends      *)
(* diagnostics.                                                            *)
(***************************************************************************)
C10_ResolveRunsToCompletion ==
    pc # "new" => Returned /\ output.k \in {"Module", "Program"}

(***************************************************************************)
(* C11: when the resolution of a name reference puts an error marker (an   *)
(* Error node, or Qualified::Error as the name of the node) into the       *)
(* output, at least one diagnostic has been appended to the sink; the      *)
(* runs are the binder runs with one reference, so every diagnostic of a   *)
(* run is a diagnostic of that reference.                                  *)
(***************************************************************************)
IsErrorMarker(n) ==
    \/ IsErrorNode(n)
    \/ n.k \in {"Function", "Constructor"} /\ n.name = QError

\* The one reference of a binder run with a single reference, and what it
\* became.
NameRefKinds == {"Variable", "Function", "Ident"}
C11_HasOneRef ==
    \/ BodyOf(input).k \in NameRefKinds
    \/ BodyOf(input).k \in BinderKinds /\ InnerOf(BodyOf(input)).k \in NameRefKinds
C11_Ref == IF BodyOf(input).k \in NameRefKinds THEN BodyOf(input) ELSE InnerOf(BodyOf(input))
C11_Out == IF BodyOf(input).k \in NameRefKinds THEN OutBody ELSE InnerOf(OutBody)

C11_IsCase == Returned /\ C11_HasOneRef /\ IsErrorMarker(C11_Out)

C11_ErrorMarkerHasDiagnostic == C11_IsCase => Reporter # <<>>

(***************************************************************************)
(* The use runs of resolve.rs: up to MaxUses `use` declarations, aliased   *)
(* or not, of modules that exist (M and N both declare foo) or not (Q),    *)
(* then `let f = e`, e being `foo`, an alias-qualified `X.foo`, or the     *)
(* application of one to the other.                                        *)
(***************************************************************************)
MaxUses == 3
Aliases == {"X", "M"}
Use(path) == Node("UseDecl", path, <<>>)
UseAs(path, alias) == Node("UseDecl", path, <<Leaf("Upper", <<alias>>)>>)
UsePaths == {<<"M">>, <<"N">>, <<"Q">>}
UseDecls == {Use(path) : path \in UsePaths}
            \cup {UseAs(path, a) : path \in {<<"M">>, <<"N">>}, a \in Aliases}
UseBodies ==
    {Ref("rs", "foo")}
    \cup {QRef("rs", <<a, "foo">>) : a \in Aliases}
    \cup {Apply("rs", Ref("rs", "foo"), QRef("rs", <<a, "foo">>)) : a \in Aliases}
ProgramWith(uses, expr) ==
    [ProgramIn("rs", expr) EXCEPT !.subs[1].subs = uses]
UsePrograms == {ProgramWith(us, e) : us \in SeqsUpTo(UseDecls, MaxUses), e \in UseBodies}

InitUse == InitWith({c \in RegConfigs : c.visM = "Public" /\ c.visSecret = "Private"
                                        /\ ~c.ptM /\ c.hasB})
NextUse == \E p \in UsePrograms : RsResolve(p)
SpecUse == InitUse /\ [][NextUse]_vars

\* The `use` declarations of a use run: the paths imported without an alias,
\* the path an alias stands for at the end (a later `use .. as X` replaces
\* an earlier one), the diagnostics of the declarations themselves.
UsesOf(p) == p.subs[1].subs
Unaliased(p) ==
    {UsesOf(p)[i].name : i \in {j \in DOMAIN UsesOf(p) :
                                  UsesOf(p)[j].subs = <<>> /\ UsesOf(p)[j].name \in TreePaths}}
RECURSIVE AliasOf(_, _)
AliasOf(us, a) ==
    IF us = <<>> THEN <<>>
    ELSE IF Last(us).subs # <<>> /\ Last(us).subs[1].name = <<a>> /\ Last(us).name \in TreePaths
    THEN Last(us).name
    ELSE AliasOf(Front(us), a)
RECURSIVE UseDiags(_)
UseDiags(us) ==
    IF us = <<>> THEN <<>>
    ELSE (IF Head(us).name \in TreePaths THEN <<>>
          ELSE <<Diag("CannotFindModule", Head(us).name)>>) \o UseDiags(Tail(us))

\* The first and the last reference of the body of a use run.
FirstRef(e) == IF e.k = "Application" THEN e.subs[1] ELSE e
LastRef(e) == IF e.k = "Application" THEN e.subs[2] ELSE e

(***************************************************************************)
(* C12: after two un-aliased `use` declarations of different namespaces    *)
(* that both declare foo, the unqualified reference `foo` reports          *)
(* AmbiguousImport and becomes an error reference; after `use M as X` the  *)
(* reference `X.foo` becomes Resolved{canonical: M, last: foo} and appends *)
(* no diagnostic: the sink holds no CannotFindModule but those of the      *)
(* `use` declarations, and nothing else at all when `X.foo` is the only    *)
(* reference of the program.                                               *)
(***************************************************************************)
C12_IsAmbiguous ==
    /\ Returned
    /\ FirstRef(BodyOf(input)) = Ref("rs", "foo")
    /\ {<<"M">>, <<"N">>} \subseteq Unaliased(input)

C12_IsAliased ==
    /\ Returned
    /\ Len(LastRef(BodyOf(input)).name) = 2
    /\ AliasOf(UsesOf(input), LastRef(BodyOf(input)).name[1]) # <<>>

C12_AmbiguousOrAliased ==
    /\ C12_IsAmbiguous =>
          /\ HasDiag(Reporter, "AmbiguousImport")
          /\ IsErrorMarker(FirstRef(OutBody))
    /\ C12_IsAliased =>
          /\ LastRef(OutBody) =
                Leaf("Function",
                     Resolved(TreeFind(AliasOf(UsesOf(input), LastRef(BodyOf(input)).name[1])),
                              "foo"))
          /\ CountKind(Reporter, "CannotFindModule") = Len(UseDiags(UsesOf(input)))
          /\ BodyOf(input).k = "Ident" => Reporter = UseDiags(UsesOf(input))

\* `use M`, `use N`, `use M as X` and the body `foo X.foo`.
C12_AmbiguousAndAliased ==
    /\ C12_IsAmbiguous
    /\ C12_IsAliased
    /\ BodyOf(input).k = "Application"
    /\ LastRef(OutBody).name = Resolved(MId, "foo")

(***************************************************************************)
(* The if runs of lib.rs: `let f = if c then t else e` with c, t, e a      *)
(* literal or a reference, and `let f = r` for the same references alone,  *)
(* under registries in which module Bool is absent, declares True and      *)
(* False, lacks False, or declares True as a function or as Private.       *)
(***************************************************************************)
BoolId == "ns5"
BoolKinds == {"absent", "declared", "noFalse", "function", "private"}
BoolNamespace(kind) ==
    [values |->
        [s \in (IF kind = "noFalse" THEN {"True"} ELSE {"True", "False"}) |->
            IF s = "False" THEN Item("Constructor", BoolId, "False", "Public")
            ELSE Item(IF kind = "function" THEN "Function" ELSE "Constructor", BoolId, "True",
                      IF kind = "private" THEN "Private" ELSE "Public")],
     types |-> [s \in {} |-> NoItem],
     modules |-> [s \in {} |-> ModItem(NoId, "Public")],
     pass_through |-> FALSE]
WithBool(reg, kind) ==
    IF kind = "absent" THEN reg
    ELSE [id \in DOMAIN reg \cup {BoolId} |->
            IF id = BoolId THEN BoolNamespace(kind)
            ELSE IF id = RootId
            THEN [reg[id] EXCEPT !.modules =
                    [s \in DOMAIN reg[id].modules \cup {"Bool"} |->
                        IF s = "Bool" THEN ModItem(BoolId, "Public")
                        ELSE reg[id].modules[s]]]
            ELSE reg[id]]

If(cond, then_expr, else_expr) == Node("If", <<>>, <<cond, then_expr, else_expr>>)
IfLeaves == {Lit, Ref("lib", "foo"), Ref("lib", "u"), Leaf("Constructor", <<"A">>)}
IfPrograms ==
    {ProgramIn("lib", If(c, t, e)) : c \in IfLeaves, t \in IfLeaves, e \in IfLeaves}
    \cup {ProgramIn("lib", r) : r \in IfLeaves}

InitIf ==
    /\ namespaces \in {WithBool(Registry(c), kind) :
                         c \in {r \in RegConfigs : r.visM = "Public" /\ r.visSecret = "Private"
                                                   /\ ~r.ptM /\ r.hasB},
                         kind \in BoolKinds}
    /\ ctx = NewCtx
    /\ context = NewContext(RootId)
    /\ pc = "new"
    /\ input = NoNode
    /\ output = NoNode
NextIf == \E p \in IfPrograms : LibResolve(p)
SpecIf == InitIf /\ [][NextIf]_vars

\* What one resolution of a leaf at the root gives and reports, read off
\* the registry; the runs of a leaf alone are held against it too.
OnceOut(r) ==
    CASE r.k = "Literal" -> r
      [] r.name[1] \in DOMAIN namespaces[RootId].values ->
           Leaf(IF r.k = "Constructor" THEN "Constructor" ELSE "Function", <<RootId, r.name[1]>>)
      [] OTHER -> Leaf("Error", <<>>)
OnceDiags(r) ==
    IF OnceOut(r).k = "Error"
    THEN <<Diag("NotFound", r.name), Diag("NotFound", r.name)>>
    ELSE <<>>

\* The pattern the lookup of Bool.<name> gives when it succeeds, and
\* whether the registry lets it succeed from the root.
BoolPattern(name) == Leaf("PatApplication", <<BoolId, name>>)
BoolDeclares(name) ==
    /\ BoolId \in DOMAIN namespaces
    /\ name \in DOMAIN namespaces[BoolId].values
    /\ namespaces[BoolId].values[name].kind = "Constructor"
    /\ namespaces[BoolId].values[name].visibility = "Public"
ArmOf(name, body) ==
    Node("PatternArm", <<>>,
         <<IF BoolDeclares(name) THEN BoolPattern(name) ELSE Leaf("PatError", <<>>),
           body, NoNode>>)
Failed == Cardinality({name \in {"True", "False"} : ~BoolDeclares(name)})

(***************************************************************************)
(* C13: IfExpr::resolve of lib.rs turns `if c then t else e` into a `when` *)
(* whose scrutinee is the resolved c and whose two arms are, in this       *)
(* order, Bool.True -> resolved t and Bool.False -> resolved e; an arm     *)
(* whose constructor lookup fails has an error pattern and the lookup has  *)
(* reported; c, t and e are resolved exactly once each, in this order      *)
(* (the sink ends with what one resolution of each reports), and are in    *)
(* the output.                                                             *)
(***************************************************************************)
C13_IsCase == Returned /\ BodyOf(input).k = "If"
C13_Cond == BodyOf(input).subs[1]
C13_Then == BodyOf(input).subs[2]
C13_Else == BodyOf(input).subs[3]
C13_Operands == OnceDiags(C13_Cond) \o OnceDiags(C13_Then) \o OnceDiags(C13_Else)

C13_IfIsTwoArmWhen ==
    /\ Returned /\ BodyOf(input).k # "If" =>
          OutBody = OnceOut(BodyOf(input)) /\ Reporter = OnceDiags(BodyOf(input))
    /\ C13_IsCase =>
          /\ OutBody = Node("When", <<>>,
                            <<OnceOut(C13_Cond),
                              ArmOf("True", OnceOut(C13_Then)),
                              ArmOf("False", OnceOut(C13_Else))>>)
          /\ Len(Reporter) >= Failed + Len(C13_Operands)
          /\ SubSeq(Reporter, Len(Reporter) - Len(C13_Operands) + 1, Len(Reporter))
                = C13_Operands
          /\ Failed = 0 => Len(Reporter) = Len(C13_Operands)

\* Bool.True resolves, Bool.False does not, and the three operands differ.
C13_OneArmFails ==
    /\ C13_IsCase
    /\ BoolDeclares("True") /\ ~BoolDeclares("False")
    /\ OutBody.subs[3].subs[1].k = "PatError"
    /\ C13_Cond = Ref("lib", "u")
    /\ C13_Then = Ref("lib", "foo")
    /\ C13_Else = Leaf("Constructor", <<"A">>)

(***************************************************************************)
(* resolved.rs: Qualified with its range, its PartialEq and its Hash.  A   *)
(* Hasher is the sequence of the values written to it: equal sequences     *)
(* give equal hashes whatever the hasher.                                  *)
(***************************************************************************)
MaxByte == 1
Ranges == {<<s, e>> : s \in 0..MaxByte, e \in 0..MaxByte}

\* enum Qualified { Resolved { canonical, last, range }, Error(range) }
Qualified_Resolved(canonical, last, range) ==
    [tag |-> "Resolved", canonical |-> canonical, last |-> last, range |-> range]
Qualified_Error(range) == [tag |-> "Error", range |-> range]
Qualifieds ==
    {Qualified_Resolved(c, l, r) : c \in {RootId, MId}, l \in {"foo", "secret"}, r \in Ranges}
    \cup {Qualified_Error(r) : r \in Ranges}

\* PartialEq comparing the ranges as well
Qualified_eq_with_range(self, other) == self = other

\* impl PartialEq for Qualified
Qualified_eq(self, other) ==
    IF self.tag = "Resolved" /\ other.tag = "Resolved"
    THEN self.canonical = other.canonical /\ self.last = other.last
    ELSE FALSE

\* impl Hash for Qualified
Qualified_hash(self, state) ==
    IF self.tag = "Resolved" THEN state \o <<self.canonical, self.last>>
    ELSE state

\* The comparison runs: two Qualified values, compared and hashed.
InitQualified ==
    /\ namespaces \in {Registry(c) : c \in {r \in RegConfigs :
                          r.visM = "Public" /\ r.visSecret = "Private" /\ ~r.ptM
                          /\ r.hasB /\ r.hasFoo}}
    /\ ctx = NewCtx
    /\ context = NewContext(RootId)
    /\ pc = "new"
    /\ input \in Qualifieds \X Qualifieds
    /\ output = NoNode
Compare ==
    /\ pc = "new"
    /\ pc' = "compared"
    /\ output' = [eq |-> Qualified_eq(input[1], input[2]),
                  hashes |-> <<Qualified_hash(input[1], <<>>),
                               Qualified_hash(input[2], <<>>)>>]
    /\ UNCHANGED <<namespaces, ctx, context, input>>
NextQualified == Compare
SpecQualified == InitQualified /\ [][NextQualified]_vars

(***************************************************************************)
(* C14: for two Qualified values that are both Resolved, a == b exactly    *)
(* when their canonical namespaces and their final symbols are equal,      *)
(* whatever their ranges; and whenever a == b, hash(a) = hash(b).          *)
(***************************************************************************)
C14_IsCase ==
    /\ pc = "compared"
    /\ input[1].tag = "Resolved"
    /\ input[2].tag = "Resolved"

C14_EqAndHashIgnoreRange ==
    /\ C14_IsCase =>
          (output.eq <=> /\ input[1].canonical = input[2].canonical
                         /\ input[1].last = input[2].last)
    /\ pc = "compared" /\ output.eq => output.hashes[1] = output.hashes[2]

\* Equal values whose ranges differ.
C14_EqualWithDifferentRanges ==
    /\ C14_IsCase
    /\ output.eq
    /\ input[1].range # input[2].range
    /\ output.hashes[1] = output.hashes[2]

(***************************************************************************)
(* C15: the final-segment rule of Context::find_val.  When the final       *)
(* segment is found in namespace N, the item is returned exactly when it   *)
(* is Public, or the namespace of the current module path is N, or N is    *)
(* pass_through; otherwise exactly one PrivateDefinition is reported and   *)
(* no item is returned.  (Stated for the paths that lead through Public    *)
(* modules to N; a name of one segment is looked up in the root.)          *)
(***************************************************************************)
C15_N == Reached(Front(TheRef.ref.name), main)
C15_Item == namespaces[C15_N][MapOf(TheRef.ref)][Last(TheRef.ref.name)]

C15_IsCase ==
    /\ pc = "lib"
    /\ PublicPrefix(Front(TheRef.ref.name), main)
    /\ Declares(C15_N, MapOf(TheRef.ref), Last(TheRef.ref.name))

C15_MayReturn ==
    \/ C15_Item.visibility = "Public"
    \/ TreeFind(TheRef.pos) = C15_N
    \/ namespaces[C15_N].pass_through

C15_FinalSegmentVisibility ==
    C15_IsCase =>
        IF C15_MayReturn
        THEN TheOut.name = <<C15_Item.canonical, C15_Item.last>> /\ ctx.reporter = <<>>
        ELSE IsErrorNode(TheOut) /\ CountKind(ctx.reporter, "PrivateDefinition") = 1

\* A Private item of a pass_through namespace, returned to another module.
C15_PrivateThroughConduit ==
    /\ C15_IsCase
    /\ C15_Item.visibility = "Private"
    /\ TreeFind(TheRef.pos) # C15_N
    /\ namespaces[C15_N].pass_through
    /\ ~IsErrorNode(TheOut)

(***************************************************************************)
(* The nested pattern runs: `when <literal> is A p q -> x y`, one of p, q  *)
(* a variable and the other an or-pattern over variables and one-argument  *)
(* constructor applications, as in `A x (A x | B x)`.                      *)
(***************************************************************************)
Alternatives(v) == {Var(v, x) : x \in Names} \cup {App(v, c, <<Var(v, x)>>) : c \in Cons, x \in Names}
NestedPatterns(v) ==
    {App(v, "A", <<Var(v, x), Or(v, l, r)>>) :
        x \in Names, l \in Alternatives(v), r \in Alternatives(v)}
    \cup {App(v, "A", <<Or(v, l, r), Var(v, x)>>) :
            x \in Names, l \in Alternatives(v), r \in Alternatives(v)}
NestedPrograms(v) ==
    {ProgramIn(v, When(v, P, Apply(v, Ref(v, "x"), Ref(v, "y")))) : P \in NestedPatterns(v)}

InitNest == InitWith({c \in RegConfigs : c.visM = "Public" /\ c.visSecret = "Private"
                                         /\ ~c.ptM /\ c.hasFoo /\ c.hasB})
NextNest ==
    \/ \E p \in NestedPrograms("lib") : LibResolve(p)
    \/ \E p \in NestedPrograms("rs") : RsResolve(p)
SpecNest == InitNest /\ [][NextNest]_vars

\* The variable and the or-pattern of a nested pattern; the error leaves of
\* an output pattern.
OrOf(p) == IF p.subs[1].k = "POr" THEN p.subs[1] ELSE p.subs[2]
VarOf(p) == IF p.subs[1].k = "POr" THEN p.subs[2] ELSE p.subs[1]
RECURSIVE Errors(_), ErrorsOfSeq(_)
Errors(p) == (IF p.k = "PatError" THEN 1 ELSE 0) + ErrorsOfSeq(p.subs)
ErrorsOfSeq(ps) == IF ps = <<>> THEN 0 ELSE Errors(Head(ps)) + ErrorsOfSeq(Tail(ps))

(***************************************************************************)
(* C16: within one outermost pattern a variable occurrence whose symbol is *)
(* already in any capture map of the capture stack is reported as a        *)
(* duplicate and becomes an error pattern node: a name bound by the        *)
(* enclosing pattern and bound again in both branches of an or-pattern     *)
(* next to it is reported, whether the or-pattern comes before or after    *)
(* the other occurrence.                                                   *)
(***************************************************************************)
C16_IsCase ==
    /\ Returned
    /\ Occ(OrOf(ThePattern).subs[1], VarOf(ThePattern).name[1]) = 1
    /\ Occ(OrOf(ThePattern).subs[2], VarOf(ThePattern).name[1]) = 1

C16_DuplicateAcrossOrPattern ==
    C16_IsCase =>
        /\ DiagsOf(DuplicateKinds, VarOf(ThePattern).name[1]) >= 1
        /\ Errors(OutPattern) >= 1

(***************************************************************************)
(* C17: or-patterns recover to the left.  After an or-pattern has been     *)
(* resolved the enclosing capture map holds what it held plus exactly the  *)
(* names of the left branch, a mismatch reported or not; a name only the   *)
(* right branch binds is never promoted.  The capture map of the outermost *)
(* pattern becomes the Variable frame of the arm, so in the body `x y` of  *)
(* a nested pattern run a name is a local variable exactly when the        *)
(* variable next to the or-pattern or the left branch binds it.            *)
(***************************************************************************)
C17_Merged == {VarOf(ThePattern).name[1]} \cup Binds(OrOf(ThePattern).subs[1])

C17_LeftBiasedMerge ==
    Returned => \A x \in Names : OutBodyRef(x).k = "Variable" <=> x \in C17_Merged

\* `A x (.. x | .. y)`: a mismatch is reported for y and y is not promoted.
C17_RightOnlyName ==
    /\ Returned
    /\ C17_Merged = {"x"}
    /\ Binds(OrOf(ThePattern).subs[2]) = {"y"}
    /\ HasDiag(Reporter, "VariableNotBoundOnBothSides")
    /\ OutBodyRef("x").k = "Variable"
    /\ OutBodyRef("y").k # "Variable"

(***************************************************************************)
(* The capture runs: PatternKind::resolve called on an outermost pattern   *)
(* as its binders call it, with one Variable frame open and no capture     *)
(* map; the state after the call shows the frame and the capture stack.    *)
(***************************************************************************)
LibPattern(p) ==
    /\ pc = "new"
    /\ LET r == call("PatternKind_resolve", p, push(ctx, "Variable"))
       IN /\ input' = p
          /\ IF r.ctx.panicked
             THEN pc' = "panicked" /\ output' = NoNode /\ ctx' = panic(ctx)
             ELSE pc' = "lib" /\ output' = r.out /\ ctx' = r.ctx
    /\ UNCHANGED <<namespaces, context>>

RsPattern(p) ==
    /\ pc = "new"
    /\ LET r == R_call("R_PatternKind_resolve", p, push(context, "Variable"))
       IN /\ input' = p
          /\ IF r.ctx.panicked
             THEN pc' = "panicked" /\ output' = NoNode /\ context' = panic(context)
             ELSE pc' = "rs" /\ output' = r.out /\ context' = r.ctx
    /\ UNCHANGED <<namespaces, ctx>>

NextCapture ==
    \/ \E p \in Patterns("lib") : LibPattern(p)
    \/ \E p \in Patterns("rs") : RsPattern(p)
SpecCapture == InitPat /\ [][NextCapture]_vars

\* The capture stack and the innermost Variable frame after a capture run.
Captures == IF pc = "rs" THEN context.captured ELSE ctx.patterns
Frame == IF pc = "rs" THEN Last(context.scopes.Variable) ELSE Last(ctx.scopes.Variable)

(***************************************************************************)
(* C18: only the outermost pattern owns a capture map.  When the outermost *)
(* pattern returns the capture stack is empty again and the keys of its    *)
(* map are in the innermost Variable frame: the frame holds the names of   *)
(* the pattern and of its sub-patterns (of the left branch for an          *)
(* or-pattern) and nothing else; the sub-patterns insert into the one map, *)
(* so a name occurring twice among the arguments of an application is      *)
(* reported as a duplicate.  (In lib.rs the arguments are resolved when    *)
(* the constructor resolves.)                                              *)
(***************************************************************************)
C18_ArgsResolved == pc = "rs" \/ ConsResolve(input)

C18_OutermostOwnsTheMap ==
    Returned =>
        /\ Captures = <<>>
        /\ Frame \subseteq Binds(input)
        /\ input.k # "POr" /\ C18_ArgsResolved =>
              /\ Frame = Binds(input)
              /\ \A x \in Names : Occ(input, x) >= 2 => DiagsOf(DuplicateKinds, x) >= 1
        /\ input.k = "POr" /\ C18_ArgsResolved => Frame = Binds(input.subs[1])

\* `A x y x`: three sub-patterns in one map, two names promoted.
C18_NestedSubPatterns ==
    /\ Returned
    /\ input.k = "PApplication"
    /\ Len(input.subs) = MaxArgs
    /\ Occ(input, "x") >= 2
    /\ Frame = {"x", "y"}
    /\ Captures = <<>>

(***************************************************************************)
(* The declaration runs: programs of lib.rs made of the declarations the   *)
(* registry knows, module M with type T (up to MaxBinders type parameters) *)
(* and a function, module N with effect E and a function, a function at    *)
(* the root; and the binder programs of resolve.rs.                        *)
(***************************************************************************)
MaxBinders == 2
TypeBinders == {Leaf("Implicit", <<"a">>), Leaf("Explicit", <<"b">>)}
TypeDefs ==
    {Leaf("Abstract", <<>>),
     Node("Synonym", <<>>, <<Leaf("TType", <<"R">>)>>),
     Node("Sum", <<>>, <<Node("Constructor", <<"K">>, <<Leaf("TTypeVariable", <<"a">>)>>)>>)}
TypeDecls ==
    {Node("TypeDecl", <<"T">>, bs \o <<def>>) :
        bs \in SeqsUpTo(TypeBinders, MaxBinders), def \in TypeDefs}
EffectFields ==
    {<<>>, <<Node("EffectField", <<"op">>, <<Leaf("TType", <<"R">>), Leaf("TTypeVariable", <<"a">>)>>)>>}
EffectDecls ==
    {Node("EffectDecl", <<"E">>, bs \o <<Node("Fields", <<>>, fs)>>) :
        bs \in SeqsUpTo(TypeBinders, MaxBinders), fs \in EffectFields}
LetDecls ==
    {LetOf(Binder("lib", form, "x", Ref("lib", "x"))) : form \in Forms}
    \cup {LetOf(Lit), LetTyped(Leaf("TType", <<"R">>))}
Module(name, top_levels) == Node("ModuleDecl", <<name>>, top_levels)
DeclPrograms ==
    {Node("Program", <<>>, <<l>>) : l \in LetDecls}
    \cup {Node("Program", <<>>, <<Module("M", <<t>>)>>) : t \in TypeDecls}
    \cup {Node("Program", <<>>, <<Module("N", <<e>>)>>) : e \in EffectDecls}
    \cup {Node("Program", <<>>, <<Module("M", <<t, l>>), Module("N", <<e>>), l>>) :
            t \in {d \in TypeDecls : Len(d.subs) = 1}, e \in EffectDecls, l \in LetDecls}

NextDecl ==
    \/ \E p \in DeclPrograms : LibResolve(p)
    \/ \E p \in ExprPrograms("rs") : RsResolve(p)
SpecDecl == InitExpr /\ [][NextDecl]_vars

\* The declarations of a declaration run, the type parameters among them.
RECURSIVE Count(_, _), CountOfSeq(_, _)
Count(n, kinds) == (IF n.k \in kinds THEN 1 ELSE 0) + CountOfSeq(n.subs, kinds)
CountOfSeq(ns, kinds) ==
    IF ns = <<>> THEN 0 ELSE Count(Head(ns), kinds) + CountOfSeq(Tail(ns), kinds)

(***************************************************************************)
(* C19: resolution is stack-neutral.  When the resolution of the top-level *)
(* declarations has returned, every scope capability has as many open      *)
(* frames as before (none), the capture stack is empty and the current     *)
(* module path is what it was (empty): every push around a binder, a      *)
(* pattern, a module, a type or an effect declaration has been undone.     *)
(***************************************************************************)
C19_StackNeutral ==
    /\ pc = "lib" => ctx.scopes = Kaleidoscope /\ ctx.patterns = <<>> /\ ctx.name = <<>>
    /\ pc = "rs" => context.scopes = Kaleidoscope /\ context.captured = <<>>

\* module M { type T; let f }, module N { effect E a .. }, let f = \x -> x
C19_EveryDeclaration ==
    /\ pc = "lib"
    /\ Len(input.subs) = 3
    /\ Count(input, {"Implicit", "Explicit"}) = MaxBinders
    /\ Count(input, {"Lambda"}) = 2
    /\ ctx.scopes = Kaleidoscope
    /\ ctx.name = <<>>

(***************************************************************************)
(* C20: every add::<TypeVariable> for a type parameter happens while a     *)
(* TypeVariable frame of the enclosing declaration is open; no add::<Cap>  *)
(* runs with zero open frames of Cap.  For a type declaration with type    *)
(* parameters: its resolution returns, no add having found its capability  *)
(* without a frame, and the parameters are gone with the frame.            *)
(***************************************************************************)
C20_IsCase ==
    /\ pc # "new"
    /\ input.subs[1].k = "ModuleDecl"
    /\ input.subs[1].subs[1].k = "TypeDecl"
    /\ Len(input.subs[1].subs[1].subs) >= 2

C20_TypeParametersHaveAFrame ==
    C20_IsCase => pc = "lib" /\ ctx.scopes.TypeVariable = <<>>

(***************************************************************************)
(* C21: a global lookup that succeeds but finds a declaration of the wrong *)
(* kind for its position reports exactly one diagnostic of an Expected...  *)
(* kind and the node becomes an error node; an unqualified variable that   *)
(* resolves to a module alias or to a field is handled in this way.        *)
(* Stated for the runs of lib.rs whose body is one unqualified variable.   *)
(***************************************************************************)
ExpectedKinds ==
    {"ExpectedConstructor", "ExpectedEffect", "ExpectedFunction", "ExpectedRecordType"}

C21_IsCase ==
    /\ pc # "new"
    /\ VersionOf(input) = "lib"
    /\ BodyOf(input).k = "Variable"
    /\ BodyOf(input).name[1] \in DOMAIN namespaces[RootId].values
    /\ namespaces[RootId].values[BodyOf(input).name[1]].kind \in {"Module", "Field"}

C21_WrongKindIsReported ==
    C21_IsCase =>
        /\ pc = "lib"
        /\ IsErrorNode(OutBody)
        /\ Len(ctx.reporter) = 1
        /\ ctx.reporter[1].kind \in ExpectedKinds

(***************************************************************************)
(* The find runs of resolve.rs: up to MaxSteps calls of UseDecl::resolve,  *)
(* one after the other as Program::resolve makes them, then one call of    *)
(* Context::find as the resolution of a name makes it.  `input` holds the  *)
(* declarations resolved so far, `output` the call of find and its result. *)
(***************************************************************************)
MaxSteps == 2
StepDecls == UseDecls \cup {UseAs(<<"Q">>, "X")}
FindPrefixes == {<<>>, <<"X">>, <<"M">>, <<"N">>, <<"Q">>, <<"M", "T">>, <<"X", "T">>}
FindNames == {Append(p, l) : p \in FindPrefixes, l \in {"foo", "K", "secret"}}
DataTypes == {"Let", "Constructor"}

RsUse(u) ==
    /\ pc \in {"new", "used"}
    /\ Len(input.subs) < MaxSteps
    /\ LET r == R_call("R_UseDecl_resolve", u, context)
       IN /\ context' = r.ctx
          /\ input' = Node("uses", <<>>, Append(input.subs, u))
          /\ pc' = "used"
    /\ UNCHANGED <<namespaces, ctx, output>>

RsFind(qualified, report_, typ) ==
    /\ pc \in {"new", "used"}
    /\ LET r == R_find(context, qualified, report_, typ)
       IN /\ context' = r.ctx
          /\ output' = [qualified |-> qualified, report |-> report_, typ |-> typ,
                        result |-> r.q, context |-> context]
          /\ pc' = "found"
    /\ UNCHANGED <<namespaces, ctx, input>>

InitSteps == InitWith({c \in RegConfigs : c.visM = "Public" /\ c.visSecret = "Private"
                                          /\ ~c.ptM /\ c.hasB /\ c.hasFoo})
NextSteps ==
    \/ \E u \in StepDecls : RsUse(u)
    \/ \E q \in FindNames, r \in BOOLEAN, t \in DataTypes : RsFind(q, r, t)
SpecSteps == InitSteps /\ [][NextSteps]_vars

\* A find run has called find: its name, its prefix, what it returned, the
\* context it was called in and what it appended to the sink.
Found == pc = "found"
PrefixOf(q) == Front(q)
Appended == SubSeq(context.reporter, Len(output.context.reporter) + 1, Len(context.reporter))

\* The namespace the ModuleTree gives for a prefix once a leading alias
\* has been replaced by its target.
Rewritten(c, prefix) ==
    IF Head(prefix) \in DOMAIN c.uses THEN c.uses[Head(prefix)] \o Tail(prefix) ELSE prefix

(***************************************************************************)
(* C22: for a reference with a non-empty module prefix p, Context::find    *)
(* returns Resolved{canonical: n, last: name} exactly when n is the        *)
(* namespace the ModuleTree gives for p, a leading alias replaced by its   *)
(* target path, and n declares the name; otherwise it returns an error     *)
(* reference.  The ImportMap has no part in it.                            *)
(***************************************************************************)
C22_IsCase == Found /\ PrefixOf(output.qualified) # <<>>
C22_N == TreeFind(Rewritten(output.context, PrefixOf(output.qualified)))

C22_PrefixedFindIgnoresImports ==
    C22_IsCase =>
        IF C22_N # NoId /\ DataType(output.typ, Last(output.qualified)) \in decls(C22_N)
        THEN output.result = Resolved(C22_N, Last(output.qualified))
        ELSE output.result = QError

\* `use N as M`, `use M`, then M.foo: the alias decides, the import of foo
\* from M does not.
C22_AliasOverImport ==
    /\ C22_IsCase
    /\ output.qualified = <<"M", "foo">>
    /\ "M" \in DOMAIN output.context.uses
    /\ DataType("Let", "foo") \in DOMAIN output.context.imports
    /\ output.result = Resolved(NId, "foo")

(***************************************************************************)
(* C23: UseDecl::resolve on a path the module registry cannot find reports *)
(* exactly one CannotFindModule and leaves the alias table and the         *)
(* ImportMap as they were, an alias given or not; on a found path with an  *)
(* alias it changes the alias table only (alias -> the full path); without *)
(* an alias it changes the ImportMap only, adding for every declaration of *)
(* the imported namespace a candidate whose canonical is that namespace.   *)
(***************************************************************************)
Candidates(imports, name) == IF name \in DOMAIN imports THEN imports[name] ELSE {}

C23_UseDeclEffects ==
    [][pc' = "used" =>
        LET u == Last(input'.subs)
            id == TreeFind(u.name)
        IN IF u.name \notin TreePaths
           THEN /\ context'.reporter =
                      Append(context.reporter, Diag("CannotFindModule", u.name))
                /\ context'.uses = context.uses
                /\ context'.imports = context.imports
           ELSE IF u.subs # <<>>
           THEN /\ context'.reporter = context.reporter
                /\ context'.imports = context.imports
                /\ DOMAIN context'.uses = DOMAIN context.uses \cup {u.subs[1].name[1]}
                /\ \A a \in DOMAIN context'.uses :
                      context'.uses[a] = IF a = u.subs[1].name[1] THEN u.name
                                         ELSE context.uses[a]
           ELSE /\ context'.reporter = context.reporter
                /\ context'.uses = context.uses
                /\ DOMAIN context'.imports = DOMAIN context.imports \cup decls(id)
                /\ \A d \in DOMAIN context'.imports :
                      context'.imports[d] =
                         Candidates(context.imports, d)
                         \cup (IF d \in decls(id) THEN {Resolved(id, d.symbol)} ELSE {})
    ]_vars

\* `use Q as X`, then `use M`: one diagnostic, no alias, the names of M.
C23_FailedThenImported ==
    /\ pc = "used"
    /\ input.subs = <<UseAs(<<"Q">>, "X"), Use(<<"M">>)>>
    /\ Len(context.reporter) = 1
    /\ DOMAIN context.uses = {}
    /\ DOMAIN context.imports = decls(MId)

(***************************************************************************)
(* C24: find_import on a bare name with a non-ambiguous ImportMap entry    *)
(* whose candidate is Resolved{canonical, last} returns that reference     *)
(* only if the namespace `canonical` declares the name, and an error       *)
(* reference otherwise; whatever path it takes, it emits CannotFind only   *)
(* when the caller passed report = true.                                   *)
(***************************************************************************)
C24_Name == DataType(output.typ, Last(output.qualified))
C24_IsBare == Found /\ PrefixOf(output.qualified) = <<>>
C24_Entry == Candidates(output.context.imports, C24_Name)
C24_IsCase == C24_IsBare /\ Cardinality(C24_Entry) = 1 /\ C24_Entry # {QError}

C24_ImportedNameIsVerified ==
    /\ C24_IsCase =>
          LET q == get_canonical(C24_Entry) IN
          /\ output.result \in {q, QError}
          /\ output.result = q <=> C24_Name \in decls(q[1])
    /\ C24_IsBare /\ HasDiag(Appended, "CannotFind") => output.report

\* `use M`, then bare foo probed with report = false: the one candidate,
\* which M declares, is returned and the sink stays as it was.
C24_VerifiedImport ==
    /\ C24_IsCase
    /\ output.result = Resolved(MId, "foo")
    /\ ~output.report
    /\ Appended = <<>>

(***************************************************************************)
(* C25: when the constructor of a pattern application cannot be resolved,  *)
(* only the application node is replaced: its argument sub-patterns are    *)
(* still resolved, so every variable the arguments bind is a local         *)
(* variable in the arm body.  (Stated for a linear application at the top  *)
(* of a when-arm whose arguments apply only constructors that resolve.)    *)
(***************************************************************************)
IsConstructor(cons) ==
    /\ cons \in DOMAIN namespaces[RootId].values
    /\ namespaces[RootId].values[cons].kind = "Constructor"

C25_IsCase ==
    /\ pc # "new"
    /\ ThePattern.k = "PApplication"
    /\ ~IsConstructor(ThePattern.name[1])
    /\ IsLinear(ThePattern)
    /\ \A cons \in ConsOfSeq(ThePattern.subs) : IsConstructor(cons)

C25_FailedHeadKeepsArguments ==
    C25_IsCase =>
        /\ Returned
        /\ \A x \in Binds(ThePattern) \cap {"x", "y"} :
              OutBodyRef(x) = Leaf("Variable", <<x>>)

(***************************************************************************)
(* C26: a call of Context::find with report = false leaves the diagnostic  *)
(* sink as it was, whatever it returns.                                    *)
(***************************************************************************)
C26_IsCase == Found /\ ~output.report

C26_SilentProbe == C26_IsCase => Appended = <<>>

(***************************************************************************)
(* C27: a failed global lookup of a name reference appends exactly one     *)
(* diagnostic: an unqualified variable expression of lib.rs that is not in *)
(* the Variable scope and that the module does not declare produces one    *)
(* diagnostic, not two.                                                    *)
(***************************************************************************)
C27_IsCase ==
    /\ pc # "new"
    /\ VersionOf(input) = "lib"
    /\ BodyOf(input).k = "Variable"
    /\ Len(BodyOf(input).name) = 1
    /\ BodyOf(input).name[1] \notin DOMAIN namespaces[RootId].values

C27_OneDiagnosticPerFailure ==
    C27_IsCase => Returned /\ IsErrorNode(OutBody) /\ Len(ctx.reporter) = 1

(***************************************************************************)
(* C28: in find_import a bare name that has an ImportMap entry is resolved *)
(* through that entry, or reported ambiguous, even when the current        *)
(* namespace declares the same name; the declarations of the current       *)
(* namespace are consulted only when the ImportMap has no entry, and then  *)
(* the result is Resolved{canonical: current namespace} iff the current    *)
(* namespace declares the name.                                            *)
(***************************************************************************)
C28_Shadowed ==
    /\ C24_IsBare
    /\ C24_Entry # {}
    /\ C24_Name \in decls(output.context.namespace)

C28_ImportBeforeOwnDeclaration ==
    C24_IsBare =>
        IF C24_Entry # {}
        THEN IF is_ambiguous(C24_Entry)
             THEN /\ output.result = QError
                  /\ Appended = <<Diag("AmbiguousImport", <<C24_Name.symbol>>)>>
             ELSE output.result \in {get_canonical(C24_Entry), QError}
        ELSE output.result =
                IF C24_Name \in decls(output.context.namespace)
                THEN Resolved(output.context.namespace, C24_Name.symbol)
                ELSE QError

\* `use M`, then bare foo, which the root declares too: foo of M.
C28_ImportShadowsOwn ==
    /\ C28_Shadowed
    /\ ~is_ambiguous(C24_Entry)
    /\ output.result = get_canonical(C24_Entry)
    /\ output.result # Resolved(output.context.namespace, C24_Name.symbol)

(***************************************************************************)
(* C29: equality on Qualified is an equivalence relation; it is reflexive  *)
(* for every value, Qualified::Error included: a value compared with       *)
(* itself is equal.                                                        *)
(***************************************************************************)
C29_IsCase == pc = "compared" /\ input[1] = input[2]

C29_EqIsReflexive == C29_IsCase => output.eq

(***************************************************************************)
(* The arm runs: one binding position with two patterns.  In lib.rs a      *)
(* when-arm `p1, p2 => x y`; in resolve.rs a let case `f p1 p2 = x y`.     *)
(***************************************************************************)
Arm(v, p1, p2, body) ==
    IF v = "lib"
    THEN ProgramIn(v, Node("When", <<>>,
                           <<Lit, Node("PatternArm", <<>>, <<p1, p2, body, NoNode>>)>>))
    ELSE Node("Program", <<>>,
              <<Node("uses", <<>>, <<>>), Node("types", <<>>, <<>>),
                Node("lets", <<>>,
                     <<Node("LetDecl", <<"f">>,
                            <<Node("params", <<>>, <<>>),
                              Node("cases", <<>>,
                                   <<Node("LetCase", <<>>, <<p1, p2, body>>)>>)>>)>>)>>)
ArmPrograms(v) ==
    {Arm(v, p1, p2, Apply(v, Ref(v, "x"), Ref(v, "y"))) :
        p1 \in Branches(v), p2 \in Branches(v)}

NextArm ==
    \/ \E p \in ArmPrograms("lib") : LibResolve(p)
    \/ \E p \in ArmPrograms("rs") : RsResolve(p)
SpecArm == InitNest /\ [][NextArm]_vars

\* The two patterns of an arm run.
ArmPattern(i) ==
    IF VersionOf(input) = "lib" THEN BodyOf(input).subs[2].subs[i]
    ELSE input.subs[3].subs[1].subs[2].subs[1].subs[i]

(***************************************************************************)
(* C30: linearity holds across the patterns of one binding position: when  *)
(* two patterns of the same when-arm (lib.rs) or of the same let case      *)
(* (resolve.rs) bind the same name, a duplicate-binding diagnostic is      *)
(* reported for it.  (Stated for patterns that are linear each and whose   *)
(* constructors resolve.)                                                  *)
(***************************************************************************)
C30_Shared == Binds(ArmPattern(1)) \cap Binds(ArmPattern(2))

C30_IsCase ==
    /\ pc # "new"
    /\ IsLinear(ArmPattern(1)) /\ IsLinear(ArmPattern(2))
    /\ ConsResolve(ArmPattern(1)) /\ ConsResolve(ArmPattern(2))
    /\ C30_Shared # {}

C30_LinearAcrossPatterns ==
    C30_IsCase => Returned /\ \A x \in C30_Shared : DiagsOf(DuplicateKinds, x) >= 1

====
